---- MODULE Spec2Model ----
(***************************************************************************)
(* Verification model of the retrieval/indexing core of mbsspedia:         *)
(*   scripts/lib/rag-cache.mjs      manifest store, atomic writes, chunker *)
(*   scripts/lib/rag-retrieval.mjs  ranking, merging, context assembly     *)
(*   scripts/index-rag (part_003)   the indexing command                   *)
(*   scripts/generate-notes.mjs     the query-time consumer                *)
(* Every subsystem is a state machine over its own group of variables;     *)
(* a specification runs one subsystem and leaves the others parked.        *)
(***************************************************************************)
EXTENDS Integers, Sequences, FiniteSets, TLC

VARIABLES
    \* splitLongSection: the arguments and the loop's locals
    sText, sMax, sOverlap, sStart, sParts, sPc,
    \* buildChunksFromText: the argument and the returned chunks
    bArgs, bChunks, bPc,
    \* writeJsonAtomic / writeManifest: the cache directory's files, the
    \* writer's position and locals, and what a concurrent reader last saw
    fs, wPc, wFile, wData, wTemp, wPrev, wStamp, lastRead,
    \* the indexing command and the query: source files, cache artifacts,
    \* manifest.json, the run's position and locals, and the run's history
    files, cache, disk, iPc, mem, queue, cur, run, prev, changed, events, query,
    \* mergeSourceBalanced: the argument object, the outcome, the position
    mArgs, mResult, mPc,
    \* assembleSectionContext: the argument object, the result, the position
    aArgs, aResult, aPc,
    \* the query embedding and the hybrid ranking: the ranking call's argument
    \* object, the ranked list, the embedding's outcome, the position
    rArgs, rResult, rEmbed, rPc,
    \* the chunk selection: the merged candidates, what the reranking call did,
    \* the selection returned, the chunks handed on, the position
    scCandidates, scOutcome, scSelection, scSelected, scPc,
    \* a call of one function on its own: the arguments, the outcome, the
    \* position
    pArgs, pResult, pPc

splitVars == <<sText, sMax, sOverlap, sStart, sParts, sPc>>
chunkVars == <<bArgs, bChunks, bPc>>
writeVars == <<fs, wPc, wFile, wData, wTemp, wPrev, wStamp, lastRead>>
indexVars == <<files, cache, disk, iPc, mem, queue, cur, run, prev, changed,
               events, query>>
mergeVars == <<mArgs, mResult, mPc>>
assembleVars == <<aArgs, aResult, aPc>>
rankVars == <<rArgs, rResult, rEmbed, rPc>>
scoutVars == <<scCandidates, scOutcome, scSelection, scSelected, scPc>>
callVars == <<pArgs, pResult, pPc>>
vars ==
    <<splitVars, chunkVars, writeVars, indexVars, mergeVars,
      assembleVars, rankVars, scoutVars, callVars>>

\* the variables an action of one subsystem leaves alone
notSplit ==
    <<chunkVars, writeVars, indexVars, mergeVars, assembleVars, rankVars,
      scoutVars, callVars>>
notChunks ==
    <<splitVars, writeVars, indexVars, mergeVars, assembleVars, rankVars,
      scoutVars, callVars>>
notWrite ==
    <<splitVars, chunkVars, indexVars, mergeVars, assembleVars, rankVars,
      scoutVars, callVars>>
notIndex ==
    <<splitVars, chunkVars, writeVars, mergeVars, assembleVars, rankVars,
      scoutVars, callVars>>
notMerge ==
    <<splitVars, chunkVars, writeVars, indexVars, assembleVars, rankVars,
      scoutVars, callVars>>
notAssemble ==
    <<splitVars, chunkVars, writeVars, indexVars, mergeVars, rankVars,
      scoutVars, callVars>>
notRank ==
    <<splitVars, chunkVars, writeVars, indexVars, mergeVars,
      assembleVars, scoutVars, callVars>>
notScout ==
    <<splitVars, chunkVars, writeVars, indexVars, mergeVars,
      assembleVars, rankVars, callVars>>
notCall ==
    <<splitVars, chunkVars, writeVars, indexVars, mergeVars,
      assembleVars, rankVars, scoutVars>>

(***************************************************************************)
(* Bounds of the model.                                                    *)
(***************************************************************************)
MaxSplitLen == 9
MaxSplitChars == 8
MaxSplitOverlap == 4
MaxDocLen == 6
MaxWrites == 2
MaxRuns == 2
MaxEvents == 1
MaxScore == 2
MaxCap == 2
MaxLimit == 3
MaxSelected == 3
MaxTextLen == 2
MaxExtra == 3
MaxRanked == 3
\* RAG_SCOUT_SELECTION_LIMIT, 28 unless configured
SCOUT_SELECTION_LIMIT == 2
MaxPool == 3
MaxOutput == 3

(***************************************************************************)
(* Characters and strings.  A string is a sequence of one-character        *)
(* strings; indexes in the definitions below are JavaScript's (0-based).   *)
(***************************************************************************)
NL == "\n"
SP == " "
HASH == "#"
Whitespace == {SP, NL}

Min2(a, b) == IF a < b THEN a ELSE b
Max2(a, b) == IF a > b THEN a ELSE b
SetMax(S) == CHOOSE x \in S : \A y \in S : y <= x

StringsUpTo(alphabet, n) == UNION {[1..k -> alphabet] : k \in 0..n}

\* String.prototype.slice(start, end)
slice(str, from, to) ==
    LET norm(i) == IF i < 0 THEN Max2(Len(str) + i, 0) ELSE Min2(i, Len(str))
        a == norm(from)
        b == norm(to)
    IN  IF a >= b THEN <<>> ELSE SubSeq(str, a + 1, b)

\* String.prototype.lastIndexOf(search, position)
lastIndexOf(str, search, position) ==
    LET hits == {i \in 0..(Len(str) - Len(search)) :
                    /\ i <= position
                    /\ SubSeq(str, i + 1, i + Len(search)) = search}
    IN  IF hits = {} THEN -1 ELSE SetMax(hits)

\* String.prototype.trim() applied to a string, as the test `!s.trim()`
IsBlank(str) == \A i \in 1..Len(str) : str[i] \in Whitespace

(***************************************************************************)
(* Chunker: splitLongSection (rag-cache.mjs 221-246).                      *)
(***************************************************************************)
ParagraphBreak == <<NL, NL>>

\* lines 227-234: the window's right edge, snapped to a paragraph break
WindowEnd(text, start, maxChars) ==
    LET end == Min2(Len(text), start + maxChars)
        paragraphBreak == lastIndexOf(text, ParagraphBreak, end)
    IN  IF end < Len(text) /\ paragraphBreak > start + (maxChars \div 2)
        THEN paragraphBreak + 2
        ELSE end

\* the window's right edge before any snap (line 227)
RawWindowEnd(text, start, maxChars) == Min2(Len(text), start + maxChars)

NextStartNoOverlap(start, end, overlapChars) == end

NextStartPastEnd(start, end, overlapChars) == end + 1

NextStartNoProgress(start, end, overlapChars) == end - overlapChars

\* line 242
NextStart(start, end, overlapChars) == Max2(start + 1, end - overlapChars)

\* the whole loop, as a function (used by the callers of splitLongSection)
RECURSIVE splitFrom(_, _, _, _)
splitFrom(text, start, maxChars, overlapChars) ==
    IF start >= Len(text) THEN <<>>
    ELSE LET end == WindowEnd(text, start, maxChars)
         IN  IF end >= Len(text)
             THEN <<slice(text, start, end)>>
             ELSE <<slice(text, start, end)>>
                  \o splitFrom(text, NextStart(start, end, overlapChars),
                               maxChars, overlapChars)

splitLongSection(text, maxChars, overlapChars) ==
    splitFrom(text, 0, maxChars, overlapChars)

SplitAlphabet == {"a", NL}

InitSplit ==
    /\ sText \in StringsUpTo(SplitAlphabet, MaxSplitLen)
    /\ sMax \in 1..MaxSplitChars
    /\ sOverlap \in 0..MaxSplitOverlap
    /\ sStart = 0
    /\ sParts = <<>>
    /\ sPc = "loop"

ParkSplit ==
    /\ sText = <<>>
    /\ sMax = 1
    /\ sOverlap = 0
    /\ sStart = 0
    /\ sParts = <<>>
    /\ sPc = "off"

\* one iteration of the while loop (lines 226-243)
SplitStep ==
    /\ sPc = "loop"
    /\ sStart < Len(sText)
    /\ LET end == WindowEnd(sText, sStart, sMax)
       IN  /\ sParts' = Append(sParts, [s |-> sStart, e |-> end,
                                        text |-> slice(sText, sStart, end)])
           /\ IF end >= Len(sText)
              THEN /\ sPc' = "done"
                   /\ sStart' = sStart
              ELSE /\ sPc' = "loop"
                   /\ sStart' = NextStart(sStart, end, sOverlap)
    /\ UNCHANGED <<sText, sMax, sOverlap, notSplit>>

\* the loop condition fails (line 226) and the parts are returned (line 245)
SplitExit ==
    /\ sPc = "loop"
    /\ sStart >= Len(sText)
    /\ sPc' = "done"
    /\ UNCHANGED <<sText, sMax, sOverlap, sStart, sParts, notSplit>>

NextSplit == SplitStep \/ SplitExit

\* C30: the chunks of splitLongSection cover the text without a gap.  Every
\* chunk is the substring of the text between its offsets, the first chunk
\* starts at offset 0, every following chunk starts after the start of the
\* chunk before it and at or before that chunk's end, and the last chunk
\* ends at the end of the text.
C30_ChunksCoverText ==
    /\ \A i \in 1..Len(sParts) :
          /\ 0 <= sParts[i].s
          /\ sParts[i].s < sParts[i].e
          /\ sParts[i].e <= Len(sText)
          /\ sParts[i].text = SubSeq(sText, sParts[i].s + 1, sParts[i].e)
          /\ i = 1 => sParts[i].s = 0
          /\ i > 1 => /\ sParts[i].s > sParts[i - 1].s
                      /\ sParts[i].s <= sParts[i - 1].e
    /\ (sPc = "done" /\ Len(sText) > 0)
       => /\ Len(sParts) >= 1
          /\ sParts[Len(sParts)].e = Len(sText)

\* three chunks or more that touch without overlapping, one of them ended
\* at a paragraph break
C30_Witness ==
    /\ sPc = "done"
    /\ Len(sParts) >= 3
    /\ sOverlap = 0
    /\ \A i \in 2..Len(sParts) : sParts[i].s = sParts[i - 1].e
    /\ \E i \in 1..Len(sParts) :
          sParts[i].e # RawWindowEnd(sText, sParts[i].s, sMax)
    /\ sParts[Len(sParts)].e = Len(sText)

(***************************************************************************)
(* Chunker: splitIntoSections and buildChunksFromText                      *)
(* (rag-cache.mjs 248-298).                                                *)
(***************************************************************************)
\* The source sets CHUNK_MAX_CHARS = 2200 and CHUNK_OVERLAP_CHARS = 200
\* (rag-cache.mjs 133-134).  The model scales the window down, so that a
\* document of a few characters spans several windows.
ScaledMaxChars == 3
ScaledOverlapChars == 1
CHUNK_MAX_CHARS == ScaledMaxChars
CHUNK_OVERLAP_CHARS == ScaledOverlapChars

RECURSIVE trimStart(_)
trimStart(str) ==
    IF str # <<>> /\ Head(str) \in Whitespace THEN trimStart(Tail(str)) ELSE str

RECURSIVE trimEnd(_)
trimEnd(str) ==
    IF str # <<>> /\ str[Len(str)] \in Whitespace
    THEN trimEnd(SubSeq(str, 1, Len(str) - 1))
    ELSE str

\* String.prototype.trim()
trim(str) == trimEnd(trimStart(str))

\* String.prototype.split(/\r?\n/)
RECURSIVE splitLines(_)
splitLines(str) ==
    IF \A i \in 1..Len(str) : str[i] # NL THEN <<str>>
    ELSE LET k == CHOOSE i \in 1..Len(str) :
                      str[i] = NL /\ \A j \in 1..(i - 1) : str[j] # NL
         IN  <<SubSeq(str, 1, k - 1)>> \o splitLines(SubSeq(str, k + 1, Len(str)))

\* Array.prototype.join("\n")
RECURSIVE joinLines(_)
joinLines(lines) ==
    IF lines = <<>> THEN <<>>
    ELSE IF Len(lines) = 1 THEN lines[1]
    ELSE lines[1] \o <<NL>> \o joinLines(Tail(lines))

Digits == {"0", "1", "2", "3", "4", "5", "6", "7", "8", "9"}
ChapterWord == <<{"c", "C"}, {"h", "H"}, {"a", "A"}, {"p", "P"},
                 {"t", "T"}, {"e", "E"}, {"r", "R"}>>

\* the number of leading characters of str that are in S
RECURSIVE runLength(_, _)
runLength(str, S) ==
    IF str # <<>> /\ Head(str) \in S THEN 1 + runLength(Tail(str), S) ELSE 0

\* headingPattern = /^(#{1,6}\s+|chapter\s+\d+[:\s])/i  (line 253)
headingPattern(str) ==
    LET hashes == runLength(str, {HASH})
        atx == /\ hashes >= 1
               /\ hashes <= 6
               /\ Len(str) > hashes
               /\ str[hashes + 1] \in Whitespace
        afterWord == SubSeq(str, Len(ChapterWord) + 1, Len(str))
        spaces == runLength(afterWord, Whitespace)
        afterSpaces == SubSeq(afterWord, spaces + 1, Len(afterWord))
        digits == runLength(afterSpaces, Digits)
        chapter == /\ Len(str) >= Len(ChapterWord)
                   /\ \A i \in 1..Len(ChapterWord) : str[i] \in ChapterWord[i]
                   /\ spaces >= 1
                   /\ digits >= 1
                   /\ Len(afterSpaces) > digits
                   /\ afterSpaces[digits + 1] \in (Whitespace \cup {":"})
    IN  atx \/ chapter

\* the loop of lines 255-265: sections pushed so far, and the current lines
RECURSIVE sectionLoop(_, _, _)
sectionLoop(lines, sections, current) ==
    IF lines = <<>>
    THEN IF Len(current) > 0
         THEN Append(sections, joinLines(current))
         ELSE sections
    ELSE LET line == Head(lines)
             isHeading == headingPattern(trim(line))
         IN  IF isHeading /\ Len(current) > 0
             THEN sectionLoop(Tail(lines), Append(sections, joinLines(current)),
                              <<line>>)
             ELSE sectionLoop(Tail(lines), sections, Append(current, line))

splitIntoSections(text) ==
    SelectSeq(sectionLoop(splitLines(text), <<>>, <<>>),
              LAMBDA section : Len(trim(section)) > 0)

IndexAfterSkipConsumes(index) == index + 1

\* lines 283-285: a whitespace-only part is skipped by `continue`
IndexAfterSkip(index) == index

SectionFirstIndexReset(index) == 1

\* line 278: `index` is declared outside the loop over the sections
SectionFirstIndex(index) == index

\* lines 282-294: the parts of one section; returns the chunks and the index
RECURSIVE partLoop(_, _, _, _)
partLoop(parts, index, chunks, args) ==
    IF parts = <<>> THEN [chunks |-> chunks, index |-> index]
    ELSE LET part == Head(parts)
         IN  IF IsBlank(part)
             THEN partLoop(Tail(parts), IndexAfterSkip(index), chunks, args)
             ELSE partLoop(Tail(parts), index + 1,
                           Append(chunks, [id |-> <<args.prefix, index>>,
                                           sourceName |-> args.sourceName,
                                           sourcePath |-> args.sourcePath,
                                           text |-> part]),
                           args)

\* lines 279-295
RECURSIVE chunkSectionLoop(_, _, _, _)
chunkSectionLoop(sections, index, chunks, args) ==
    IF sections = <<>> THEN chunks
    ELSE LET parts == splitLongSection(Head(sections), CHUNK_MAX_CHARS,
                                       CHUNK_OVERLAP_CHARS)
             r == partLoop(parts, SectionFirstIndex(index), chunks, args)
         IN  chunkSectionLoop(Tail(sections), r.index, r.chunks, args)

buildChunksFromText(args) ==
    chunkSectionLoop(splitIntoSections(args.text), 1, <<>>, args)

DocAlphabet == {"a", SP, NL, HASH}
Prefixes == {"felix", "maxim"}

InitChunks ==
    /\ bArgs \in [text : StringsUpTo(DocAlphabet, MaxDocLen),
                  prefix : Prefixes,
                  sourceName : {"note.md"},
                  sourcePath : {"/notes/note.md"}]
    /\ bChunks = <<>>
    /\ bPc = "call"

\* indexNote's call (part_003 675-680)
BuildChunks ==
    /\ bPc = "call"
    /\ bChunks' = buildChunksFromText(bArgs)
    /\ bPc' = "done"
    /\ UNCHANGED <<bArgs, notChunks>>

NextChunks == BuildChunks

(***************************************************************************)
(* Claims about the chunker.                                               *)
(***************************************************************************)
\* part i of sParts is not the final chunk of the result
NotFinalPart(i) == i < Len(sParts) \/ sPc = "loop"

\* part i was not shortened by a paragraph snap
NotShortened(i) ==
    sParts[i].e >= RawWindowEnd(sText, sParts[i].s, sMax)

\* C6: with 0 <= overlapChars < maxChars, every chunk of splitLongSection
\* except the final one has length at most maxChars, also when the window
\* end is snapped to a paragraph break.
C6_ChunkWithinMaxChars ==
    sOverlap < sMax =>
        \A i \in 1..Len(sParts) :
            NotFinalPart(i) => Len(sParts[i].text) <= sMax

\* C7: splitLongSection terminates for every maxChars >= 1 and
\* overlapChars >= 0: the window start strictly increases on every
\* iteration and stays inside the text, so there are at most Len(text)
\* chunks.
C7_StartStrictlyIncreases ==
    /\ \A i \in 1..Len(sParts) :
          /\ 0 <= sParts[i].s
          /\ sParts[i].s < Len(sText)
          /\ \A j \in 1..Len(sParts) : i < j => sParts[i].s < sParts[j].s
    /\ (sPc = "loop" /\ sParts # <<>>) =>
          /\ sParts[Len(sParts)].s < sStart
          /\ sStart < Len(sText)
    /\ Len(sParts) <= Len(sText)

C7_Witness ==
    /\ sPc = "done"
    /\ sOverlap >= sMax
    /\ Len(sText) >= 3
    /\ Len(sParts) = Len(sText)

\* C8: with overlapChars < maxChars, when a chunk that was not shortened by
\* a paragraph snap is followed by another chunk, the second chunk begins
\* with the last overlapChars characters of the first, so the two share at
\* least min(overlapChars, length of the first) characters.
C8_ConsecutiveChunksOverlap ==
    sOverlap < sMax =>
        \A i \in 1..(Len(sParts) - 1) :
            NotShortened(i) =>
                LET first == sParts[i]
                    second == sParts[i + 1]
                IN  /\ second.s = first.e - sOverlap
                    /\ second.e >= first.e
                    /\ first.e - second.s
                         >= Min2(sOverlap, Len(first.text))
                    /\ Len(second.text) >= sOverlap
                    /\ SubSeq(second.text, 1, sOverlap)
                         = SubSeq(first.text, Len(first.text) - sOverlap + 1,
                                  Len(first.text))

C8_Witness ==
    /\ sPc = "done"
    /\ sOverlap >= 2
    /\ sOverlap < sMax
    /\ Len(sParts) >= 3
    /\ NotShortened(1)
    /\ sParts[1].e > RawWindowEnd(sText, sParts[1].s, sMax)

\* all windows of all sections of a document, in order
RECURSIVE AllParts(_)
AllParts(sections) ==
    IF sections = <<>> THEN <<>>
    ELSE splitLongSection(Head(sections), CHUNK_MAX_CHARS, CHUNK_OVERLAP_CHARS)
         \o AllParts(Tail(sections))

\* C9: buildChunksFromText numbers its chunks document-wide: the ids are
\* prefix:1, prefix:2, ..., prefix:n in output order (not reset at a section
\* boundary, no ordinal consumed by a skipped whitespace-only window), so
\* they are pairwise distinct, and the chunks are the non-blank windows of
\* the sections in order.
C9_IdsNumberedDocumentWide ==
    bPc = "done" =>
        /\ \A i \in 1..Len(bChunks) : bChunks[i].id = <<bArgs.prefix, i>>
        /\ \A i, j \in 1..Len(bChunks) :
              i # j => bChunks[i].id # bChunks[j].id
        /\ [i \in 1..Len(bChunks) |-> bChunks[i].text]
             = SelectSeq(AllParts(splitIntoSections(bArgs.text)),
                         LAMBDA part : ~IsBlank(part))

\* a whitespace-only window was skipped before a later chunk
C9_Witness ==
    /\ bPc = "done"
    /\ Len(bChunks) >= 1
    /\ LET parts == AllParts(splitIntoSections(bArgs.text))
       IN  \E i, j \in 1..Len(parts) :
              i < j /\ IsBlank(parts[i]) /\ ~IsBlank(parts[j])


(***************************************************************************)
(* Atomic writes: readJsonIfExists, writeJsonAtomic, writeManifest         *)
(* (rag-cache.mjs 20-42, 105-111).                                         *)
(* A path is <<name, stamp>>: stamp 0 is the file itself, stamp n > 0 the  *)
(* temporary file `${filePath}.tmp-${pid}-${Date.now()}` of the n-th call  *)
(* (calls are awaited one after the other, so no two calls that are in     *)
(* progress share a pid and a millisecond).  A file's content is the       *)
(* sequence of the tokens written so far.                                  *)
(***************************************************************************)
Absent == <<"ENOENT">>
ManifestFile == "manifest.json"
ArtifactFile == "chunks.json"
TargetNames == {ManifestFile, ArtifactFile}
FilePath(name) == <<name, 0>>
AllFsPaths == {<<name, n>> : name \in TargetNames, n \in 0..MaxWrites}

\* the documents the callers write: a body and a timestamp
Bodies == {"old", "new"}
Documents == [body : Bodies, updatedAt : 0..MaxWrites]

\* `${JSON.stringify(data, null, 2)}\n`  (line 40)
Serialize(data) == <<"{", data.body, data.updatedAt, "}", NL>>

\* JSON.parse: the text up to optional trailing whitespace is one object
CanParse(raw) ==
    /\ Len(raw) >= 4
    /\ raw[1] = "{"
    /\ raw[4] = "}"
    /\ \A i \in 5..Len(raw) : raw[i] \in Whitespace

JsonParse(raw) == [body |-> raw[2], updatedAt |-> raw[3]]

\* readJsonIfExists(filePath, null)
NoDocument == [body |-> "", updatedAt |-> 0]

\* readJsonIfExists(filePath, null): the fallback for a missing file, the
\* parsed document, or the SyntaxError that JSON.parse throws (line 33)
readJsonIfExists(content) ==
    IF content = Absent THEN [outcome |-> "fallback", value |-> NoDocument]
    ELSE IF CanParse(content)
         THEN [outcome |-> "parsed", value |-> JsonParse(content)]
         ELSE [outcome |-> "SyntaxError", value |-> NoDocument]

TempPathInPlace(filePath, stamp) == filePath

\* line 39
TempPath(filePath, stamp) == <<filePath[1], stamp>>

InitWrite ==
    /\ \E present \in SUBSET TargetNames :
          fs = [q \in AllFsPaths |->
                   IF q[2] = 0 /\ q[1] \in present
                   THEN Serialize([body |-> "old", updatedAt |-> 0])
                   ELSE Absent]
    /\ wPc = "idle"
    /\ wFile = FilePath(ManifestFile)
    /\ wData = [body |-> "old", updatedAt |-> 0]
    /\ wTemp = FilePath(ManifestFile)
    /\ wPrev = Absent
    /\ wStamp = 0
    /\ lastRead = [name |-> "", outcome |-> "none", value |-> NoDocument]

ParkWrite ==
    /\ fs = [q \in AllFsPaths |-> Absent]
    /\ wPc = "off"
    /\ wFile = FilePath(ManifestFile)
    /\ wData = [body |-> "old", updatedAt |-> 0]
    /\ wTemp = FilePath(ManifestFile)
    /\ wPrev = Absent
    /\ wStamp = 0
    /\ lastRead = [name |-> "", outcome |-> "none", value |-> NoDocument]

\* writeJsonAtomic is entered (lines 37-39)
EnterWriteJsonAtomic(filePath, data) ==
    /\ wPc = "idle"
    /\ wStamp < MaxWrites
    /\ wStamp' = wStamp + 1
    /\ wFile' = filePath
    /\ wData' = data
    /\ wTemp' = TempPath(filePath, wStamp + 1)
    /\ wPrev' = fs[filePath]
    /\ wPc' = "write"
    /\ UNCHANGED <<fs, lastRead, notWrite>>

\* an artifact write (part_003 620-662, 693-710)
WriteArtifact ==
    \E body \in Bodies :
        EnterWriteJsonAtomic(FilePath(ArtifactFile),
                             [body |-> body, updatedAt |-> wStamp + 1])

\* writeManifest (lines 105-111): the payload carries a new updatedAt
WriteManifest ==
    \E manifest \in Documents :
        EnterWriteJsonAtomic(FilePath(ManifestFile),
                             [manifest EXCEPT !.updatedAt = wStamp + 1])

\* writeFile(tempPath, ...) (line 40): the file is created or truncated and
\* then filled, one token at a time
WriteFileStep ==
    /\ wPc = "write"
    /\ LET text == Serialize(wData)
           have == IF fs[wTemp] = Absent \/ ~(fs[wTemp] \in {SubSeq(text, 1, k) : k \in 0..(Len(text) - 1)})
                   THEN 0
                   ELSE Len(fs[wTemp])
       IN  /\ fs' = [fs EXCEPT ![wTemp] = SubSeq(text, 1, have + 1)]
           /\ wPc' = IF have + 1 = Len(text) THEN "rename" ELSE "write"
    /\ UNCHANGED <<wFile, wData, wTemp, wPrev, wStamp, lastRead, notWrite>>

\* rename(tempPath, filePath) (line 41)
RenameStep ==
    /\ wPc = "rename"
    /\ fs' = IF wTemp = wFile THEN fs
             ELSE [fs EXCEPT ![wFile] = fs[wTemp], ![wTemp] = Absent]
    /\ wPc' = "renamed"
    /\ UNCHANGED <<wFile, wData, wTemp, wPrev, wStamp, lastRead, notWrite>>

\* writeJsonAtomic returns
WriteReturn ==
    /\ wPc = "renamed"
    /\ wPc' = "idle"
    /\ UNCHANGED <<fs, wFile, wData, wTemp, wPrev, wStamp, lastRead, notWrite>>

\* the process stops in the middle of a write; a later process starts afresh
WriteCrash ==
    /\ wPc \in {"write", "rename", "renamed"}
    /\ wPc' = "idle"
    /\ UNCHANGED <<fs, wFile, wData, wTemp, wPrev, wStamp, lastRead, notWrite>>

\* a reader of a target path, at any moment
ReadTarget ==
    /\ wPc # "off"
    /\ \E name \in TargetNames :
          LET r == readJsonIfExists(fs[FilePath(name)])
          IN  lastRead' = [name |-> name, outcome |-> r.outcome,
                           value |-> r.value]
    /\ UNCHANGED <<fs, wPc, wFile, wData, wTemp, wPrev, wStamp, notWrite>>

NextWrite ==
    \/ WriteArtifact
    \/ WriteManifest
    \/ WriteFileStep
    \/ RenameStep
    \/ WriteReturn
    \/ WriteCrash
    \/ ReadTarget

\* C1: writeJsonAtomic and writeManifest are crash-atomic: whatever step the
\* writing process stops at, the target path holds the complete previous
\* document until the rename and the complete new one after it, so a reader
\* never sees a partial or corrupted document.
C1_TargetOldOrNew ==
    /\ \A name \in TargetNames :
          readJsonIfExists(fs[FilePath(name)]).outcome # "SyntaxError"
    /\ wPc \in {"write", "rename"} => fs[wFile] = wPrev
    /\ wPc = "renamed" => fs[wFile] = Serialize(wData)
    /\ lastRead.outcome # "SyntaxError"

\* an earlier write crashed and left a half-written temporary file; a later
\* write replaced a previous document, and a reader saw the new one
C1_Witness ==
    /\ wPc = "renamed"
    /\ wPrev # Absent
    /\ wPrev # Serialize(wData)
    /\ \E q \in AllFsPaths :
          /\ q[2] # 0
          /\ fs[q] # Absent
          /\ ~CanParse(fs[q])
    /\ lastRead = [name |-> wFile[1], outcome |-> "parsed", value |-> wData]

ParkChunks ==
    /\ bArgs = [text |-> <<>>, prefix |-> "felix", sourceName |-> "note.md", sourcePath |-> "/notes/note.md"]
    /\ bChunks = <<>>
    /\ bPc = "off"

(***************************************************************************)
(* The indexing command (part_003: main, indexPdf, indexNote) and the      *)
(* manifest store (rag-cache.mjs 66-123).                                  *)
(***************************************************************************)
CHUNKING_VERSION == "v1"
MANIFEST_VERSION == "v1"
DEFAULT_SPECIALTY == "general-surgery"
DEFAULT_EMBEDDING_MODEL == "openai/text-embedding-3-large"

\* the slide PDFs of options.slidesDir, in listSlidePdfs' order, and the
\* senior notes of options.seniorNotes
SlidePaths == <<"/slides/a.pdf", "/slides/b.pdf">>
NotePaths == <<"/notes/felix.md">>
SourcePaths == {SlidePaths[i] : i \in 1..Len(SlidePaths)}
                 \cup {NotePaths[i] : i \in 1..Len(NotePaths)}
IsSlide(path) == \E i \in 1..Len(SlidePaths) : SlidePaths[i] = path
ExpectedType(path) == IF IsSlide(path) THEN "pdf" ELSE "note"
\* path.basename(path)
FileNameOf(path) ==
    CASE path = "/slides/a.pdf" -> "a.pdf"
      [] path = "/slides/b.pdf" -> "b.pdf"
      [] OTHER -> "felix.md"
\* note.id and note.label of the senior note at a path
NoteIdOf(path) == "felix"
NoteLabelOf(path) == "Felix Lai"

\* file contents, named by their SHA-256, and their sizes in bytes
Contents == {"c1", "c2", "c3"}
SizeOf(sha) == IF sha = "c3" THEN 20 ELSE 10
\* modification times, in half milliseconds (mtimeMs is fractional)
MtimeValues == {2, 3, 4}
floorMs(mtimeMs) == mtimeMs \div 2
Missing == [sha |-> "ENOENT", mtimeMs |-> 0]
FileStates == [sha : Contents, mtimeMs : MtimeValues]

Specialties == {DEFAULT_SPECIALTY, "psychiatry"}
EmbeddingModels == {DEFAULT_EMBEDDING_MODEL, "openai/text-embedding-3-small"}
DefaultOptions == [specialty |-> DEFAULT_SPECIALTY,
                   embeddingModel |-> DEFAULT_EMBEDDING_MODEL,
                   force |-> FALSE]
\* the command lines of a run: at most one option is given
IndexOptions ==
    {o \in [specialty : Specialties, embeddingModel : EmbeddingModels,
            force : BOOLEAN] :
        Cardinality({f \in DOMAIN o : o[f] # DefaultOptions[f]}) <= 1}

Undefined == [undefined |-> TRUE]

\* value of object[key], undefined when the key is absent
Lookup(object, key) ==
    IF key \in DOMAIN object THEN object[key] ELSE Undefined

\* object[key] = value
Assign(object, key, value) ==
    [k \in DOMAIN object \cup {key} |-> IF k = key THEN value ELSE object[k]]

\* listSlidePdfs (part_003 328-353): the PDFs present in the directory
RECURSIVE presentOf(_, _)
presentOf(paths, fileMap) ==
    IF paths = <<>> THEN <<>>
    ELSE IF fileMap[Head(paths)] = Missing
         THEN presentOf(Tail(paths), fileMap)
         ELSE <<Head(paths)>> \o presentOf(Tail(paths), fileMap)

listSlidePdfs(fileMap) == presentOf(SlidePaths, fileMap)

\* fingerprintFile (rag-cache.mjs 66-80), for a file that exists
fingerprintFile(path, fileMap) ==
    [absolutePath |-> path,
     size |-> SizeOf(fileMap[path].sha),
     mtimeMs |-> fileMap[path].mtimeMs,
     sha256 |-> fileMap[path].sha]

isFingerprintMatchFloored(entry, fingerprint) ==
    IF entry = Undefined \/ fingerprint = Undefined THEN FALSE
    ELSE /\ entry.sha256 = fingerprint.sha256
         /\ entry.size = fingerprint.size
         /\ entry.mtimeMs = floorMs(fingerprint.mtimeMs)

isFingerprintMatchStatOnly(entry, fingerprint) ==
    IF entry = Undefined \/ fingerprint = Undefined THEN FALSE
    ELSE /\ entry.size = fingerprint.size
         /\ entry.mtimeMs = fingerprint.mtimeMs

\* isFingerprintMatch (rag-cache.mjs 113-123)
isFingerprintMatch(entry, fingerprint) ==
    IF entry = Undefined \/ fingerprint = Undefined THEN FALSE
    ELSE /\ entry.sha256 = fingerprint.sha256
         /\ entry.size = fingerprint.size
         /\ entry.mtimeMs = fingerprint.mtimeMs

\* the cache directory: paths are sequences of names below CacheBase
CacheBase == "cache"
relFromCache(absolutePath) == Tail(absolutePath)
absFromCache(relativePath) == <<CacheBase>> \o relativePath
pathJoin(dir, name) == Append(dir, name)

PdfArtifactNames == <<"pages.json", "summary.json", "summary.embedding.json",
                      "chunks.json", "chunks.embedding.json">>
NoteArtifactNames == <<"chunks.json", "chunks.embedding.json">>
ArtifactNames(type) ==
    IF type = "pdf" THEN PdfArtifactNames ELSE NoteArtifactNames

\* indexPdf (588) and indexNote (687): the artifact directory
pdfDir(sha) == <<CacheBase, "pdf", sha>>
notesDir(noteName) == <<CacheBase, "notes", noteName>>

ArtifactPaths ==
    {pathJoin(pdfDir(sha), PdfArtifactNames[i]) :
        sha \in Contents, i \in 1..Len(PdfArtifactNames)}
    \cup {pathJoin(notesDir(NoteIdOf(NotePaths[n])), NoteArtifactNames[i]) :
        n \in 1..Len(NotePaths), i \in 1..Len(NoteArtifactNames)}

NoArtifact == [sourcePath |-> "ENOENT", modelId |-> ""]

\* hasAllArtifactFiles (part_003 568-579)
hasAllArtifactFiles(paths, cacheFiles) ==
    \A i \in 1..Len(paths) : cacheFiles[paths[i]] # NoArtifact

artifactFilesIn(dir, type) ==
    [i \in 1..Len(ArtifactNames(type)) |-> pathJoin(dir, ArtifactNames(type)[i])]

NoManifest == [absent |-> TRUE]

\* manifest.field ?? fallback
orDefault(manifest, field, fallback) ==
    IF field \in DOMAIN manifest THEN manifest[field] ELSE fallback

\* readManifest (rag-cache.mjs 82-103), given what readJsonIfExists returned;
\* createdAt, a time stamp like updatedAt, is left out
readManifest(onDisk) ==
    IF onDisk = NoManifest
    THEN [manifestVersion |-> MANIFEST_VERSION,
          updatedAt |-> 0,
          chunkingVersion |-> "unknown",
          embeddingModel |-> "",
          sources |-> <<>>]
    ELSE [manifestVersion |-> orDefault(onDisk, "manifestVersion",
                                        MANIFEST_VERSION),
          updatedAt |-> orDefault(onDisk, "updatedAt", 0),
          chunkingVersion |-> orDefault(onDisk, "chunkingVersion", "unknown"),
          embeddingModel |-> orDefault(onDisk, "embeddingModel", ""),
          sources |-> orDefault(onDisk, "sources", <<>>)]

\* buildManifestEntryBase (part_003 718-729), with the fields main adds
buildManifestEntry(path, fingerprint, options, type, artifactDir, now) ==
    IF type = "pdf"
    THEN [type |-> type,
          specialty |-> options.specialty,
          size |-> fingerprint.size,
          mtimeMs |-> fingerprint.mtimeMs,
          sha256 |-> fingerprint.sha256,
          indexedAt |-> now,
          modelId |-> options.embeddingModel,
          chunkingVersion |-> CHUNKING_VERSION,
          fileName |-> FileNameOf(path),
          artifactDir |-> artifactDir]
    ELSE [type |-> type,
          specialty |-> options.specialty,
          size |-> fingerprint.size,
          mtimeMs |-> fingerprint.mtimeMs,
          sha256 |-> fingerprint.sha256,
          indexedAt |-> now,
          modelId |-> options.embeddingModel,
          chunkingVersion |-> CHUNKING_VERSION,
          noteName |-> NoteIdOf(path),
          noteLabel |-> NoteLabelOf(path),
          artifactDir |-> artifactDir]

\* main, lines 775-785 and 828-832: the artifact files the check looks for
checkedArtifactFiles(path, existing, fingerprint) ==
    IF IsSlide(path)
    THEN artifactFilesIn(IF existing # Undefined
                         THEN absFromCache(existing.artifactDir)
                         ELSE pdfDir(fingerprint.sha256),
                         "pdf")
    ELSE artifactFilesIn(notesDir(NoteIdOf(path)), "note")

FreshIgnoringModel(path, existing, fingerprint, options, cacheFiles) ==
    /\ ~options.force
    /\ existing # Undefined
    /\ existing.type = ExpectedType(path)
    /\ existing.specialty = options.specialty
    /\ existing.chunkingVersion = CHUNKING_VERSION
    /\ isFingerprintMatch(existing, fingerprint)
    /\ hasAllArtifactFiles(checkedArtifactFiles(path, existing, fingerprint),
                           cacheFiles)

\* main, lines 787-795 (PDF) and 834-842 (note)
Fresh(path, existing, fingerprint, options, cacheFiles) ==
    /\ ~options.force
    /\ existing # Undefined
    /\ existing.type = ExpectedType(path)
    /\ existing.specialty = options.specialty
    /\ existing.modelId = options.embeddingModel
    /\ existing.chunkingVersion = CHUNKING_VERSION
    /\ isFingerprintMatch(existing, fingerprint)
    /\ hasAllArtifactFiles(checkedArtifactFiles(path, existing, fingerprint),
                           cacheFiles)

\* the embedding calls of indexPdf (603, 609) and indexNote (682)
EmbedCallsOf(type) == IF type = "pdf" THEN 2 ELSE 1

NoFingerprint == [absolutePath |-> "", size |-> 0, mtimeMs |-> 0, sha256 |-> ""]
NoCurrent == [doc |-> "", fingerprint |-> NoFingerprint, embedded |-> FALSE,
              written |-> 0]
NoOptions == [specialty |-> "", embeddingModel |-> "", force |-> FALSE]
NoRun == [no |-> 0, opts |-> NoOptions, listing |-> {}, skipped |-> {},
          indexed |-> {}, failed |-> {}, embedCalls |-> 0,
          changedBefore |-> FALSE, outcome |-> "none"]
NoPrev == [outcome |-> "none", opts |-> NoOptions, sources |-> <<>>]
NoQuery == [specialty |-> "", allowStaleIndex |-> FALSE, outcome |-> "none",
            issues |-> {}, slides |-> {}]

\* an index written by an earlier release, whose chunking version was "v0"
LegacyEntry ==
    [buildManifestEntry(SlidePaths[1],
                        [absolutePath |-> SlidePaths[1], size |-> SizeOf("c1"),
                         mtimeMs |-> 2, sha256 |-> "c1"],
                        [specialty |-> DEFAULT_SPECIALTY,
                         embeddingModel |-> DEFAULT_EMBEDDING_MODEL,
                         force |-> FALSE],
                        "pdf", relFromCache(pdfDir("c1")), 0)
     EXCEPT !.chunkingVersion = "v0"]

LegacyManifest ==
    [manifestVersion |-> MANIFEST_VERSION, updatedAt |-> 0,
     chunkingVersion |-> "v0", embeddingModel |-> DEFAULT_EMBEDDING_MODEL,
     sources |-> Assign(<<>>, SlidePaths[1], LegacyEntry)]

LegacyCache ==
    [q \in ArtifactPaths |->
        IF \E i \in 1..Len(PdfArtifactNames) :
              q = pathJoin(pdfDir("c1"), PdfArtifactNames[i])
        THEN [sourcePath |-> SlidePaths[1], modelId |-> DEFAULT_EMBEDDING_MODEL]
        ELSE NoArtifact]

InitIndex ==
    /\ files = [p \in SourcePaths |->
                   [sha |-> IF p = SlidePaths[2] THEN "c2" ELSE "c1",
                    mtimeMs |-> 2]]
    /\ \/ /\ disk = NoManifest
          /\ cache = [q \in ArtifactPaths |-> NoArtifact]
       \/ /\ disk = LegacyManifest
          /\ cache = LegacyCache
    /\ iPc = "idle"
    /\ mem = readManifest(NoManifest)
    /\ queue = <<>>
    /\ cur = NoCurrent
    /\ run = NoRun
    /\ prev = NoPrev
    /\ changed = FALSE
    /\ events = 0
    /\ query = NoQuery

ParkIndex ==
    /\ files = [p \in SourcePaths |-> Missing]
    /\ disk = NoManifest
    /\ cache = [q \in ArtifactPaths |-> NoArtifact]
    /\ iPc = "off"
    /\ mem = readManifest(NoManifest)
    /\ queue = <<>>
    /\ cur = NoCurrent
    /\ run = NoRun
    /\ prev = NoPrev
    /\ changed = FALSE
    /\ events = 0
    /\ query = NoQuery

manifestOfRunRebuilt(onDisk, options) ==
    [readManifest(NoManifest) EXCEPT
        !.chunkingVersion = CHUNKING_VERSION,
        !.embeddingModel = options.embeddingModel]

\* lines 760-762: the manifest the run works on
manifestOfRun(onDisk, options) ==
    [readManifest(onDisk) EXCEPT
        !.chunkingVersion = CHUNKING_VERSION,
        !.embeddingModel = options.embeddingModel]

\* main, lines 731-769: options parsed, manifest read, slides listed
StartRun ==
    /\ iPc = "idle"
    /\ run.no < MaxRuns
    /\ \E options \in IndexOptions :
          /\ mem' = manifestOfRun(disk, options)
          /\ queue' = listSlidePdfs(files) \o NotePaths
          /\ run' = [NoRun EXCEPT
                        !.no = run.no + 1,
                        !.opts = options,
                        !.listing = {p \in SourcePaths :
                                        IsSlide(p) => files[p] # Missing},
                        !.changedBefore = changed,
                        !.outcome = "running"]
    /\ prev' = [outcome |-> run.outcome, opts |-> run.opts,
                sources |-> readManifest(disk).sources]
    /\ iPc' = "loop"
    /\ changed' = FALSE
    /\ query' = NoQuery
    /\ cur' = NoCurrent
    /\ UNCHANGED <<files, disk, cache, events, notIndex>>

\* main rejects: main().catch prints the message and sets the exit code
\* (lines 881-884); nothing after the throwing statement runs
RunRejects(path) ==
    /\ iPc' = "idle"
    /\ run' = [run EXCEPT !.outcome = "failed", !.failed = {path}]
    /\ cur' = NoCurrent
    /\ queue' = <<>>
    /\ UNCHANGED <<files, disk, cache, mem, prev, changed, query, notIndex>>

\* one iteration of a loop of main up to the decision (771-800, 821-847)
ProcessDoc ==
    /\ iPc = "loop"
    /\ queue # <<>>
    /\ files[Head(queue)] # Missing
    /\ LET path == Head(queue)
           fingerprint == fingerprintFile(path, files)
           existing == Lookup(mem.sources, path)
       IN  IF Fresh(path, existing, fingerprint, run.opts, cache)
           THEN /\ run' = [run EXCEPT !.skipped = @ \cup {path}]
                /\ queue' = Tail(queue)
                /\ UNCHANGED <<iPc, cur>>
           ELSE /\ iPc' = "index"
                /\ cur' = [doc |-> path, fingerprint |-> fingerprint,
                           embedded |-> FALSE, written |-> 0]
                /\ UNCHANGED <<run, queue>>
    /\ UNCHANGED <<files, disk, cache, mem, prev, changed, events, query,
                   notIndex>>

\* fingerprintFile throws for a missing file (rag-cache.mjs 68)
FingerprintThrows ==
    /\ iPc = "loop"
    /\ queue # <<>>
    /\ files[Head(queue)] = Missing
    /\ RunRejects(Head(queue))
    /\ UNCHANGED events

\* indexPdf 591-612 / indexNote 673-685: extraction and the embedding calls
IndexEmbed ==
    /\ iPc = "index"
    /\ ~cur.embedded
    /\ cur' = [cur EXCEPT !.embedded = TRUE]
    /\ run' = [run EXCEPT
                  !.embedCalls = @ + EmbedCallsOf(ExpectedType(cur.doc))]
    /\ UNCHANGED <<files, disk, cache, iPc, mem, queue, prev, changed, events,
                   query, notIndex>>

\* extraction fails, or an embedding call fails after its retries
IndexThrows ==
    /\ iPc = "index"
    /\ ~cur.embedded
    /\ events < MaxEvents
    /\ events' = events + 1
    /\ RunRejects(cur.doc)

isFirstWrite(written, type) == written + 1 = 1

\* indexPdf / indexNote return after their last writeJsonAtomic
isLastWrite(written, type) == written + 1 = Len(ArtifactNames(type))

\* the next writeJsonAtomic of indexPdf (620-662) / indexNote (693-710);
\* after the last one main sets the manifest entry (811-818, 857-865)
IndexWrite ==
    /\ iPc = "index"
    /\ cur.embedded
    /\ LET type == ExpectedType(cur.doc)
           dir == IF type = "pdf" THEN pdfDir(cur.fingerprint.sha256)
                  ELSE notesDir(NoteIdOf(cur.doc))
           target == pathJoin(dir, ArtifactNames(type)[cur.written + 1])
           last == isLastWrite(cur.written, type)
       IN  /\ cache' = [cache EXCEPT ![target] =
                           [sourcePath |-> cur.doc,
                            modelId |-> run.opts.embeddingModel]]
           /\ IF last
              THEN /\ mem' = [mem EXCEPT !.sources =
                                 Assign(@, cur.doc,
                                        buildManifestEntry(cur.doc,
                                            cur.fingerprint, run.opts, type,
                                            relFromCache(dir), run.no))]
                   /\ run' = [run EXCEPT !.indexed = @ \cup {cur.doc}]
                   /\ queue' = Tail(queue)
                   /\ cur' = NoCurrent
                   /\ iPc' = "loop"
              ELSE /\ cur' = [cur EXCEPT !.written = @ + 1]
                   /\ UNCHANGED <<mem, run, queue, iPc>>
    /\ UNCHANGED <<files, disk, prev, changed, events, query, notIndex>>

\* main, line 868: writeManifest, after both loops
FinishRun ==
    /\ iPc = "loop"
    /\ queue = <<>>
    /\ disk' = [mem EXCEPT !.updatedAt = run.no]
    /\ run' = [run EXCEPT !.outcome = "completed"]
    /\ iPc' = "idle"
    /\ UNCHANGED <<files, cache, mem, queue, cur, prev, changed, events, query,
                   notIndex>>

\* the process is killed
KillRun ==
    /\ iPc \in {"loop", "index"}
    /\ events < MaxEvents
    /\ events' = events + 1
    /\ iPc' = "idle"
    /\ run' = [run EXCEPT !.outcome = "killed"]
    /\ cur' = NoCurrent
    /\ queue' = <<>>
    /\ UNCHANGED <<files, disk, cache, mem, prev, changed, query, notIndex>>

\* between runs a source file is edited, touched, replaced or removed
EditFile ==
    /\ iPc = "idle"
    /\ run.no > 0
    /\ events < MaxEvents
    /\ \E p \in SourcePaths, state \in FileStates \cup {Missing} :
          /\ state # files[p]
          /\ files' = [files EXCEPT ![p] = state]
    /\ events' = events + 1
    /\ changed' = TRUE
    /\ query' = NoQuery
    /\ UNCHANGED <<disk, cache, iPc, mem, queue, cur, run, prev, notIndex>>

\* between runs a file of the cache directory is deleted
RemoveArtifact ==
    /\ iPc = "idle"
    /\ run.no > 0
    /\ events < MaxEvents
    /\ \E q \in ArtifactPaths :
          /\ cache[q] # NoArtifact
          /\ cache' = [cache EXCEPT ![q] = NoArtifact]
    /\ events' = events + 1
    /\ changed' = TRUE
    /\ query' = NoQuery
    /\ UNCHANGED <<files, disk, iPc, mem, queue, cur, run, prev, notIndex>>

(***************************************************************************)
(* The query-time consumer (generate-notes.mjs: listCacheReadinessIssues,  *)
(* prepareIndexedContextSources, main).                                    *)
(***************************************************************************)
INDEX_CHUNKING_VERSION == CHUNKING_VERSION
QueryOptions == [specialty : Specialties, allowStaleIndex : BOOLEAN]

\* requiredByPath (1546-1558): every configured note, every listed PDF
requiredPaths(fileMap) ==
    {p \in SourcePaths : IsSlide(p) => fileMap[p] # Missing}

\* the body of the loop of listCacheReadinessIssues (1560-1619)
readinessIssue(path, options, manifest, fileMap) ==
    LET entry == Lookup(manifest.sources, path)
    IN  IF entry = Undefined THEN "missing_manifest_entry"
        ELSE IF entry.type # ExpectedType(path) THEN "type_mismatch"
        ELSE IF entry.specialty # options.specialty THEN "specialty_mismatch"
        ELSE IF entry.modelId # manifest.embeddingModel
             THEN "embedding_model_mismatch"
        ELSE IF entry.chunkingVersion # INDEX_CHUNKING_VERSION
             THEN "chunking_version_mismatch"
        ELSE IF fileMap[path] = Missing THEN "source_unreadable"
        ELSE IF \/ entry.size # SizeOf(fileMap[path].sha)
                \/ floorMs(entry.mtimeMs) # floorMs(fileMap[path].mtimeMs)
             THEN "source_changed_since_index"
        ELSE "none"

\* listCacheReadinessIssues (1544-1622)
listCacheReadinessIssues(options, manifest, fileMap) ==
    {<<p, readinessIssue(p, options, manifest, fileMap)>> :
        p \in {r \in requiredPaths(fileMap) :
                  readinessIssue(r, options, manifest, fileMap) # "none"}}

\* readIndexedChunksAndEmbeddings (1470-1506) returns non-null
readIndexedChunksAndEmbeddings(artifactDir, cacheFiles) ==
    LET dir == absFromCache(artifactDir)
    IN  /\ cacheFiles[pathJoin(dir, "chunks.json")] # NoArtifact
        /\ cacheFiles[pathJoin(dir, "chunks.embedding.json")] # NoArtifact

\* readIndexedSlideArtifacts (1508-1535) returns non-null
readIndexedSlideArtifacts(artifactDir, cacheFiles) ==
    LET dir == absFromCache(artifactDir)
    IN  /\ cacheFiles[pathJoin(dir, "summary.json")] # NoArtifact
        /\ cacheFiles[pathJoin(dir, "summary.embedding.json")] # NoArtifact
        /\ readIndexedChunksAndEmbeddings(artifactDir, cacheFiles)

\* the loops of prepareIndexedContextSources (1652-1709)
noteIsServed(path, options, manifest, cacheFiles) ==
    LET entry == Lookup(manifest.sources, path)
    IN  /\ entry # Undefined
        /\ entry.specialty = options.specialty
        /\ readIndexedChunksAndEmbeddings(entry.artifactDir, cacheFiles)

slideIsServed(path, options, manifest, cacheFiles) ==
    LET entry == Lookup(manifest.sources, path)
    IN  /\ entry # Undefined
        /\ entry.specialty = options.specialty
        /\ readIndexedSlideArtifacts(entry.artifactDir, cacheFiles)

\* prepareIndexedContextSources (1624-1719) and its caller main (2175-2258)
generateNotes(options, onDisk, fileMap, cacheFiles) ==
    LET manifest == readManifest(onDisk)
        issues == listCacheReadinessIssues(options, manifest, fileMap)
        notes == {NotePaths[i] : i \in 1..Len(NotePaths)}
        slides == {p \in SourcePaths : IsSlide(p) /\ fileMap[p] # Missing}
        served == {p \in slides :
                      slideIsServed(p, options, manifest, cacheFiles)}
        result(outcome, used) ==
            [specialty |-> options.specialty,
             allowStaleIndex |-> options.allowStaleIndex,
             outcome |-> outcome, issues |-> issues, slides |-> used]
    IN  IF issues # {} /\ ~options.allowStaleIndex
        THEN result("stale_index_error", {})
        ELSE IF \A p \in notes :
                   noteIsServed(p, options, manifest, cacheFiles)
        THEN result("retrieved", served)
        ELSE IF options.allowStaleIndex
        THEN result("legacy_pipeline", {})
        ELSE result("index_unavailable_error", {})

\* a run of the note-generation command between indexing runs
Query ==
    /\ iPc = "idle"
    /\ query = NoQuery
    /\ \E options \in QueryOptions :
          query' = generateNotes(options, disk, files, cache)
    /\ UNCHANGED <<files, disk, cache, iPc, mem, queue, cur, run, prev,
                   changed, events, notIndex>>

NextIndex ==
    \/ StartRun
    \/ ProcessDoc
    \/ FingerprintThrows
    \/ IndexEmbed
    \/ IndexThrows
    \/ IndexWrite
    \/ FinishRun
    \/ KillRun
    \/ EditFile
    \/ RemoveArtifact
    \/ Query

(***************************************************************************)
(* Claims about the indexing command and the query.                        *)
(***************************************************************************)
\* the freshness conditions as the specification lists them, for the
\* document at a path, against the manifest the run holds in memory
FreshAsSpecified(path) ==
    /\ ~run.opts.force
    /\ path \in DOMAIN mem.sources
    /\ LET entry == mem.sources[path]
           live == files[path]
       IN  /\ entry.type = ExpectedType(path)
           /\ entry.specialty = run.opts.specialty
           /\ entry.modelId = run.opts.embeddingModel
           /\ entry.chunkingVersion = CHUNKING_VERSION
           /\ entry.size = SizeOf(live.sha)
           /\ entry.mtimeMs = live.mtimeMs
           /\ entry.sha256 = live.sha
           /\ \A i \in 1..Len(ArtifactNames(entry.type)) :
                 cache[pathJoin(absFromCache(entry.artifactDir),
                                ArtifactNames(entry.type)[i])] # NoArtifact

StaleAsSpecified(path) ==
    LET manifest == readManifest(disk)
    IN  \/ path \notin DOMAIN manifest.sources
        \/ LET entry == manifest.sources[path]
               live == files[path]
           IN  \/ entry.type # ExpectedType(path)
               \/ entry.specialty # query.specialty
               \/ entry.modelId # manifest.embeddingModel
               \/ entry.chunkingVersion # INDEX_CHUNKING_VERSION
               \/ live = Missing
               \/ entry.size # SizeOf(live.sha)
               \/ entry.mtimeMs # live.mtimeMs
               \/ entry.sha256 # live.sha
               \/ \E i \in 1..Len(ArtifactNames(entry.type)) :
                     cache[pathJoin(absFromCache(entry.artifactDir),
                                    ArtifactNames(entry.type)[i])] = NoArtifact

\* C3: without --allow-stale-index the note-generation command never
\* retrieves from the index when a required document fails a freshness
\* condition (entry, type, specialty, model, chunking version, size, mtime,
\* content hash, artifact files).
C3_StaleIndexNeverRetrieved ==
    (/\ query.outcome # "none"
     /\ ~query.allowStaleIndex
     /\ \E path \in requiredPaths(files) : StaleAsSpecified(path))
    => query.outcome # "retrieved"

\* C4: a failure while indexing one document does not abort the run: every
\* document of the listing is still processed, and the manifest on disk
\* records every document the run indexed.
C4_FailureDoesNotAbortRun ==
    (/\ iPc = "idle"
     /\ run.failed # {}
     /\ run.outcome # "killed")
    => /\ run.listing \subseteq (run.skipped \cup run.indexed \cup run.failed)
       /\ \A path \in run.indexed :
             LET recorded == Lookup(readManifest(disk).sources, path)
             IN  /\ recorded # Undefined
                 /\ recorded.indexedAt = run.no

\* the run after a completed run, with nothing changed in between, the same
\* specialty and embedding model, and no --force
RepeatedRun ==
    /\ iPc = "idle"
    /\ run.outcome = "completed"
    /\ prev.outcome = "completed"
    /\ ~run.changedBefore
    /\ ~run.opts.force
    /\ run.opts.specialty = prev.opts.specialty
    /\ run.opts.embeddingModel = prev.opts.embeddingModel

\* C5: a run that repeats a completed run, with no source file and no
\* configuration value changed and without --force, skips every document,
\* makes no embedding call and writes back identical manifest entries.
C5_SecondRunSkipsAll ==
    RepeatedRun
    => /\ run.skipped = run.listing
       /\ run.indexed = {}
       /\ run.embedCalls = 0
       /\ disk.sources = prev.sources

\* the first run indexed all three documents and the second repeated it
C5_Witness ==
    /\ RepeatedRun
    /\ run.no = 2
    /\ run.listing = SourcePaths
    /\ \A path \in SourcePaths :
          /\ path \in DOMAIN disk.sources
          /\ disk.sources[path].indexedAt = 1

\* the artifact directory an entry points to holds every file of its type
EntryComplete(entry, cacheFiles) ==
    hasAllArtifactFiles(
        artifactFilesIn(absFromCache(entry.artifactDir), entry.type),
        cacheFiles)

ManifestComplete(manifest, cacheFiles) ==
    manifest # NoManifest
    => \A path \in DOMAIN manifest.sources :
          EntryComplete(manifest.sources[path], cacheFiles)

\* a step that deletes a file of the cache directory
ArtifactDeleted ==
    \E q \in ArtifactPaths : cache[q] # NoArtifact /\ cache'[q] = NoArtifact

\* C28: no two distinct source documents recorded in the manifest share an
\* artifact directory, also when two slide PDFs have the same content.
C28_NoSharedArtifactDirectory ==
    disk # NoManifest
    => \A p, q \in DOMAIN disk.sources :
          p # q => disk.sources[p].artifactDir # disk.sources[q].artifactDir

\* the model the query is embedded with (generate-notes.mjs 1629)
queryEmbeddingModel(manifest) ==
    IF manifest.embeddingModel = "" THEN DEFAULT_EMBEDDING_MODEL
    ELSE manifest.embeddingModel

\* the files of stored embeddings of a document, and the chunks beside them
embeddingFilesOf(path, manifest) ==
    LET dir == absFromCache(manifest.sources[path].artifactDir)
    IN  {pathJoin(dir, "chunks.embedding.json")}
           \cup (IF IsSlide(path)
                 THEN {pathJoin(dir, "summary.embedding.json")}
                 ELSE {})

\* C29: when the note-generation command retrieves from the index without
\* --allow-stale-index, the stored embeddings of every document it ranks
\* were made with the model the query is embedded with, and the chunk
\* embeddings belong to the chunks stored beside them.
C29_RankedEmbeddingsFromQueryModel ==
    (query.outcome = "retrieved" /\ ~query.allowStaleIndex)
    => LET manifest == readManifest(disk)
           used == {NotePaths[i] : i \in 1..Len(NotePaths)} \cup query.slides
       IN  \A p \in used :
              /\ \A f \in embeddingFilesOf(p, manifest) :
                    cache[f].modelId = queryEmbeddingModel(manifest)
              /\ LET dir == absFromCache(manifest.sources[p].artifactDir)
                 IN  cache[pathJoin(dir, "chunks.embedding.json")]
                        = cache[pathJoin(dir, "chunks.json")]

\* C26: a completed indexing run removes no manifest entry.  Every source
\* path of the manifest read at the start of the run is a key of the manifest
\* written at its end, and the entry of a path that is not among the
\* documents listed in the run is the one that was read.
C26_RunKeepsUnlistedEntries ==
    run.outcome = "completed"
    => \A p \in DOMAIN prev.sources :
          /\ p \in DOMAIN disk.sources
          /\ p \notin run.listing => disk.sources[p] = prev.sources[p]

\* a slide PDF that has an entry was removed from the slides directory and
\* the next run has completed and has indexed another document
C26_Witness ==
    /\ run.outcome = "completed"
    /\ \E p \in DOMAIN prev.sources :
          /\ IsSlide(p)
          /\ files[p] = Missing
          /\ p \notin run.listing
          /\ disk.sources[p] = prev.sources[p]
    /\ \E q \in run.listing :
          q \in DOMAIN prev.sources /\ disk.sources[q] # prev.sources[q]

DefaultPerSourceCap == 12
DefaultCandidateLimit == 60

\* chunk ids in the order of String.prototype.localeCompare
IdOrder ==
    <<"a.pdf", "b.pdf", "c.pdf", "d.pdf", "felix-1", "felix-2", "felix-3",
      "felix-4", "maxim-1", "ryan-1", "slides-1", "slides-2">>
FelixIds == {"felix-1", "felix-2"}
MaximIds == {"maxim-1"}
RyanIds == {"ryan-1"}
SlideIds == {"slides-1", "slides-2"}
IdRank(id) == CHOOSE i \in 1..Len(IdOrder) : IdOrder[i] = id
localeCompare(a, b) == IdRank(a) - IdRank(b)

\* the comparator of lines 98 and 122
compareItems(a, b) ==
    IF b.score - a.score # 0 THEN b.score - a.score
    ELSE localeCompare(a.id, b.id)

\* Array.prototype.sort with compareItems: a stable insertion sort
RECURSIVE insertSorted(_, _)
insertSorted(sorted, item) ==
    IF sorted = <<>> THEN <<item>>
    ELSE IF compareItems(Head(sorted), item) <= 0
         THEN <<Head(sorted)>> \o insertSorted(Tail(sorted), item)
         ELSE <<item>> \o sorted

RECURSIVE sortItems(_)
sortItems(items) ==
    IF items = <<>> THEN <<>>
    ELSE insertSorted(sortItems(SubSeq(items, 1, Len(items) - 1)),
                      items[Len(items)])

\* items.slice(0, perSourceCap).map(item => ({...item, sourceGroup}))
topOf(ranked, perSourceCap, sourceGroup) ==
    LET top == slice(ranked, 0, perSourceCap)
    IN  [i \in 1..Len(top) |->
            [id |-> top[i].id, score |-> top[i].score,
             sourceGroup |-> sourceGroup]]

Returned(value) == [threw |-> "none", value |-> value]
Threw(errorName) == [threw |-> errorName, value |-> <<>>]

\* the array `merged` of lines 121-122: the capped groups, concatenated and
\* sorted, before the final truncation
mergePool(args, perSourceCap) ==
    sortItems(topOf(args.rankedFelix, perSourceCap, "felix")
              \o topOf(args.rankedMaxim, perSourceCap, "maxim")
              \o topOf(args.rankedSlides, perSourceCap, "slides"))

\* mergeSourceBalanced (101-125); a property the call does not pass is
\* undefined, and rankedFelix.slice of undefined throws a TypeError
mergeSourceBalanced(args) ==
    LET undefined(name) == name \notin DOMAIN args
        perSourceCap == IF undefined("perSourceCap")
                        THEN DefaultPerSourceCap ELSE args.perSourceCap
        candidateLimit == IF undefined("candidateLimit")
                          THEN DefaultCandidateLimit ELSE args.candidateLimit
    IN  IF \/ undefined("rankedFelix")
           \/ undefined("rankedMaxim")
           \/ undefined("rankedSlides")
        THEN Threw("TypeError")
        ELSE Returned(slice(mergePool(args, perSourceCap), 0, candidateLimit))

\* the ranked lists rankChunksHybrid can return over a set of chunk ids
Items(ids) == [id : ids, score : 0..MaxScore]
RankedLists(ids) ==
    {list \in UNION {[1..k -> Items(ids)] : k \in 0..Cardinality(ids)} :
        /\ \A i, j \in 1..Len(list) : i # j => list[i].id # list[j].id
        /\ \A i \in 1..(Len(list) - 1) : compareItems(list[i], list[i + 1]) < 0}

\* the call of generate-notes.mjs 1779-1783, with three senior notes
\* configured: one group per note (1760-1769), then the slides (1770-1777)
rankedSourcesCall(felix, maxim, ryan, slides, cap, limit) ==
    [rankedSources |-> <<[sourceGroup |-> "note:felix", items |-> felix],
                         [sourceGroup |-> "note:maxim", items |-> maxim],
                         [sourceGroup |-> "note:ryan", items |-> ryan],
                         [sourceGroup |-> "slides", items |-> slides]>>,
     perSourceCap |-> cap,
     candidateLimit |-> limit]

\* a call with the parameters the function declares (101-107)
threeGroupCall(felix, maxim, slides, cap, limit) ==
    [rankedFelix |-> felix, rankedMaxim |-> maxim, rankedSlides |-> slides,
     perSourceCap |-> cap, candidateLimit |-> limit]

NoCall == [perSourceCap |-> 0, candidateLimit |-> 0]

InitMerge ==
    /\ \E felix \in RankedLists(FelixIds), maxim \in RankedLists(MaximIds),
          ryan \in RankedLists(RyanIds), slides \in RankedLists(SlideIds),
          cap \in 0..MaxCap, limit \in 0..MaxLimit :
          mArgs \in {rankedSourcesCall(felix, maxim, ryan, slides, cap, limit),
                     threeGroupCall(felix, maxim, slides, cap, limit)}
    /\ mResult = Returned(<<>>)
    /\ mPc = "call"

ParkMerge ==
    /\ mArgs = NoCall
    /\ mResult = Returned(<<>>)
    /\ mPc = "off"

MergeCall ==
    /\ mPc = "call"
    /\ mResult' = mergeSourceBalanced(mArgs)
    /\ mPc' = "done"
    /\ UNCHANGED <<mArgs, notMerge>>

NextMerge == MergeCall

\* the sum, over the groups, of min(perSourceCap, group size)
RECURSIVE cappedTotal(_, _)
cappedTotal(groups, cap) ==
    IF groups = <<>> THEN 0
    ELSE Min2(cap, Len(Head(groups).items)) + cappedTotal(Tail(groups), cap)

\* C10: mergeSourceBalanced, called with a list of source groups, returns a
\* list whose items come from the first perSourceCap items of their group
\* and carry the group's tag, ordered by score descending and id ascending,
\* of length min(candidateLimit, sum of min(perSourceCap, group size)).
C10_MergeOfRankedSources ==
    (mPc = "done" /\ "rankedSources" \in DOMAIN mArgs)
    => LET groups == mArgs.rankedSources
           out == mResult.value
       IN  /\ mResult.threw = "none"
           /\ Len(out) = Min2(mArgs.candidateLimit,
                              cappedTotal(groups, mArgs.perSourceCap))
           /\ \A i \in 1..(Len(out) - 1) : compareItems(out[i], out[i + 1]) <= 0
           /\ \A i \in 1..Len(out) :
                 \E g \in 1..Len(groups) :
                    /\ out[i].sourceGroup = groups[g].sourceGroup
                    /\ \E k \in 1..Min2(mArgs.perSourceCap, Len(groups[g].items)) :
                          /\ groups[g].items[k].id = out[i].id
                          /\ groups[g].items[k].score = out[i].score

\* every item of the groups before the last outscores every item of the last
OthersOutscoreLast(groups) ==
    \A g \in 1..(Len(groups) - 1) :
       /\ groups[g].items # <<>>
       /\ \A i \in 1..Len(groups[g].items) :
             \A j \in 1..Len(groups[Len(groups)].items) :
                groups[g].items[i].score > groups[Len(groups)].items[j].score

\* C11: whether a group's items enter the pool before the final truncation
\* does not depend on the other groups' scores: with four groups, the first
\* three outscoring every item of the fourth, and the fourth holding twice
\* perSourceCap items (10 items at a cap of 5; here 2 at a cap of 1), all
\* items of the fourth group are in the pool.
C11_OutscoredGroupInPool ==
    (/\ mPc = "done"
     /\ "rankedSources" \in DOMAIN mArgs
     /\ Len(mArgs.rankedSources) = 4
     /\ mArgs.perSourceCap = 1
     /\ Len(mArgs.rankedSources[4].items) = 2
     /\ OthersOutscoreLast(mArgs.rankedSources))
    => /\ mResult.threw = "none"
       /\ LET last == mArgs.rankedSources[4].items
              pool == mergePool(mArgs, mArgs.perSourceCap)
          IN  \A j \in 1..Len(last) :
                 \E i \in 1..Len(pool) : pool[i].id = last[j].id

\* C12: for perSourceCap >= 1 and candidateLimit at least the number of
\* groups, every group with a ranked item has an item in the returned list,
\* whatever the scores (here: the three groups the function declares).
C12_EveryGroupRepresented ==
    (/\ mPc = "done"
     /\ "rankedFelix" \in DOMAIN mArgs
     /\ mArgs.perSourceCap >= 1
     /\ mArgs.candidateLimit >= 3)
    => /\ mResult.threw = "none"
       /\ mArgs.rankedFelix # <<>>
             => \E i \in 1..Len(mResult.value) :
                   mResult.value[i].sourceGroup = "felix"
       /\ mArgs.rankedMaxim # <<>>
             => \E i \in 1..Len(mResult.value) :
                   mResult.value[i].sourceGroup = "maxim"
       /\ mArgs.rankedSlides # <<>>
             => \E i \in 1..Len(mResult.value) :
                   mResult.value[i].sourceGroup = "slides"

(***************************************************************************)
(* assembleSectionContext (rag-retrieval.mjs 127-169) and its call in      *)
(* buildRetrievedContextForSectionFromIndex (generate-notes.mjs 1812-1825).*)
(* Strings here are TLA+ strings: only their length and their              *)
(* concatenation matter.                                                   *)
(***************************************************************************)
EstimateOverhead == 220

\* file names of slide PDFs: a short one and a long one
RECURSIVE repeat(_, _)
repeat(str, count) == IF count = 0 THEN "" ELSE str \o repeat(str, count - 1)
ShortFileName == "a.pdf"
LongFileName == repeat("lecture-", 11) \o ".pdf"

slideChunkIdNoPage(fileName, pageNumber, partIndex) ==
    "slide:" \o fileName \o ":" \o ToString(partIndex)

\* chunk ids as the index builds them: buildChunksFromText (rag-cache.mjs
\* 289) and buildSlideChunksFromPages (part_003 532)
noteChunkId(prefix, index) == prefix \o ":" \o ToString(index)
slideChunkId(fileName, pageNumber, partIndex) ==
    "slide:" \o fileName \o ":p" \o ToString(pageNumber)
             \o ":" \o ToString(partIndex)

ChunkTexts == {repeat("a", n) : n \in 1..MaxTextLen}

\* the chunks a selection can hold; tag(name) is the sourceGroup the caller
\* has put on the chunks of a source
CandidateChunks(tag(_)) ==
    [id : {noteChunkId("felix", 1), noteChunkId("felix", 2)},
     sourceName : {"felixlai.md"}, text : ChunkTexts,
     sourceGroup : {tag("felix")}]
    \cup [id : {noteChunkId("maxim", 1)},
          sourceName : {"maxim.md"}, text : ChunkTexts,
          sourceGroup : {tag("maxim")}]
    \cup {[id |-> slideChunkId(fileName, 1, 1), sourceName |-> fileName,
           text |-> text, sourceGroup |-> tag("slides")] :
             fileName \in {ShortFileName, LongFileName}, text \in ChunkTexts}

\* the ordered selections of distinct chunks, up to MaxSelected of them
Selections(tag(_)) ==
    {list \in UNION {[1..k -> CandidateChunks(tag)] : k \in 0..MaxSelected} :
        \A i, j \in 1..Len(list) : i # j => list[i].id # list[j].id}

\* context budgets around the multiples of the estimate
Budgets ==
    {n * EstimateOverhead + extra : n \in 0..MaxSelected, extra \in 0..MaxExtra}

\* the sourceGroup tags of generate-notes.mjs 1668 and 1705
callerTag(name) == IF name = "slides" THEN "slides" ELSE "note:" \o name
\* the sourceGroup tags mergeSourceBalanced puts on (110, 114, 118)
mergeTag(name) == name

\* the call of generate-notes.mjs 1812-1825
callerAssembleCall(selectedChunks, budget) ==
    [selectedChunks |-> selectedChunks,
     contextBudgetChars |-> budget,
     groupOrder |-> <<"note:felix", "note:maxim", "slides">>,
     groupedTitles |->
        [group \in {"note:felix", "note:maxim", "slides"} |->
            CASE group = "note:felix" -> "### Senior Note: Felix Lai (Indexed)"
              [] group = "note:maxim" -> "### Senior Note: Maxim (Indexed)"
              [] OTHER -> "### Lecture Slides (Indexed)"]]

\* a call with the parameters the function declares (127-130)
declaredAssembleCall(selectedChunks, budget) ==
    [selectedChunks |-> selectedChunks, contextBudgetChars |-> budget]

\* line 141
estimatedSize(chunk) == Len(chunk.text) + EstimateOverhead

fitsStrictly(usedChars, size, budget) == usedChars + size < budget

\* line 142, negated: the chunk is admitted
fits(usedChars, size, budget) == ~(usedChars + size > budget)

restAfterBreak(rest) == <<>>

\* line 143: continue with the chunks after the one that did not fit
restAfterSkip(rest) == rest

\* the loop of lines 140-148
RECURSIVE admitLoop(_, _, _, _)
admitLoop(chunks, selected, usedChars, budget) ==
    IF chunks = <<>> THEN [selected |-> selected, usedChars |-> usedChars]
    ELSE IF fits(usedChars, estimatedSize(Head(chunks)), budget)
         THEN admitLoop(Tail(chunks), Append(selected, Head(chunks)),
                        usedChars + estimatedSize(Head(chunks)), budget)
         ELSE admitLoop(restAfterSkip(Tail(chunks)), selected, usedChars,
                        budget)

\* lines 131-135 and 150: the titles and the order the function uses
groupedTitles ==
    [group \in {"felix", "maxim", "slides"} |->
        CASE group = "felix" -> "### Felix Scout (Indexed)"
          [] group = "maxim" -> "### Maxim Scout (Indexed)"
          [] OTHER -> "### BlockB Slides (Indexed)"]
groupOrder == <<"felix", "maxim", "slides">>

\* selected.filter(item => item.sourceGroup === group)
RECURSIVE filterGroup(_, _)
filterGroup(items, group) ==
    IF items = <<>> THEN <<>>
    ELSE IF Head(items).sourceGroup = group
         THEN <<Head(items)>> \o filterGroup(Tail(items), group)
         ELSE filterGroup(Tail(items), group)

\* line 160
renderChunk(item) ==
    "#### [" \o item.id \o "] Source: " \o item.sourceName \o "\n" \o item.text

\* lines 152-162: the parts, group by group
RECURSIVE partsOf(_, _)
partsOf(groups, selected) ==
    IF groups = <<>> THEN <<>>
    ELSE LET groupItems == filterGroup(selected, Head(groups))
         IN  (IF groupItems = <<>> THEN <<>>
              ELSE <<groupedTitles[Head(groups)]>>
                   \o [i \in 1..Len(groupItems) |-> renderChunk(groupItems[i])])
             \o partsOf(Tail(groups), selected)

\* Array.prototype.join
RECURSIVE join(_, _)
join(parts, separator) ==
    IF parts = <<>> THEN ""
    ELSE IF Len(parts) = 1 THEN parts[1]
    ELSE parts[1] \o separator \o join(Tail(parts), separator)

\* assembleSectionContext (127-169)
assembleSectionContext(args) ==
    LET admitted == admitLoop(args.selectedChunks, <<>>, 0,
                              args.contextBudgetChars)
        parts == partsOf(groupOrder, admitted.selected)
    IN  [contextText |-> join(parts, "\n\n"),
         usedChars |-> admitted.usedChars,
         selected |-> admitted.selected]

NoAssembled == [contextText |-> "", usedChars |-> 0, selected |-> <<>>]

InitAssemble ==
    /\ \E budget \in Budgets :
          \/ \E chunks \in Selections(callerTag) :
                aArgs = callerAssembleCall(chunks, budget)
          \/ \E chunks \in Selections(mergeTag) :
                aArgs = declaredAssembleCall(chunks, budget)
    /\ aResult = NoAssembled
    /\ aPc = "call"

ParkAssemble ==
    /\ aArgs = declaredAssembleCall(<<>>, 0)
    /\ aResult = NoAssembled
    /\ aPc = "off"

AssembleCall ==
    /\ aPc = "call"
    /\ aResult' = assembleSectionContext(aArgs)
    /\ aPc' = "done"
    /\ UNCHANGED <<aArgs, notAssemble>>

NextAssemble == AssembleCall

\* the positions of the candidates that were admitted
AdmittedIndexes ==
    {i \in 1..Len(aArgs.selectedChunks) :
        \E j \in 1..Len(aResult.selected) :
           aResult.selected[j].id = aArgs.selectedChunks[i].id}

\* the sum of text.length + overhead over a set of candidate positions
RECURSIVE EstimateSum(_)
EstimateSum(indexes) ==
    IF indexes = {} THEN 0
    ELSE LET i == CHOOSE k \in indexes : TRUE
         IN  estimatedSize(aArgs.selectedChunks[i])
             + EstimateSum(indexes \ {i})

\* C13: candidates are processed in order; a candidate is admitted exactly
\* when the characters used so far plus text.length + 220 do not exceed the
\* budget, and a misfit is skipped, not the end of the loop.  So selected is
\* the admitted candidates in input order, usedChars is the sum of their
\* estimates and at most the budget, and no skipped candidate would fit in
\* what is left.
C13_AdmittedExactlyWhenFits ==
    aPc = "done"
    => LET input == aArgs.selectedChunks
           budget == aArgs.contextBudgetChars
           usedBefore(i) == EstimateSum({k \in AdmittedIndexes : k < i})
           isAdmitted(chunk) ==
               \E i \in AdmittedIndexes : input[i] = chunk
       IN  /\ \A i \in 1..Len(input) :
                 (i \in AdmittedIndexes)
                    <=> (usedBefore(i) + estimatedSize(input[i]) <= budget)
           /\ aResult.selected = SelectSeq(input, isAdmitted)
           /\ aResult.usedChars = EstimateSum(AdmittedIndexes)
           /\ aResult.usedChars <= budget
           /\ \A i \in (1..Len(input)) \ AdmittedIndexes :
                 aResult.usedChars + estimatedSize(input[i]) > budget

\* the second of three candidates did not fit, the third filled the budget
C13_Witness ==
    /\ aPc = "done"
    /\ Len(aArgs.selectedChunks) = 3
    /\ AdmittedIndexes = {1, 3}
    /\ aResult.usedChars = aArgs.contextBudgetChars

\* the contextText the caller's configuration asks for: the groups of
\* groupOrder that have an admitted chunk, each under its groupedTitles
\* title, the chunks of a group in their order
RECURSIVE ConfiguredParts(_, _, _)
ConfiguredParts(order, titles, selected) ==
    IF order = <<>> THEN <<>>
    ELSE LET groupItems == filterGroup(selected, Head(order))
         IN  (IF groupItems = <<>> THEN <<>>
              ELSE <<titles[Head(order)]>>
                   \o [i \in 1..Len(groupItems) |-> renderChunk(groupItems[i])])
             \o ConfiguredParts(Tail(order), titles, selected)

\* C14: the contextText renders every admitted chunk exactly once under the
\* title the caller's groupedTitles gives its sourceGroup, the groups in the
\* order of the caller's groupOrder, no heading for a group without an
\* admitted chunk, the chunks of a group in their original order.
C14_RenderedAsConfigured ==
    (aPc = "done" /\ "groupedTitles" \in DOMAIN aArgs)
    => aResult.contextText =
          join(ConfiguredParts(aArgs.groupOrder, aArgs.groupedTitles,
                               aResult.selected), "\n\n")

\* the sets of candidate positions whose estimates fit the budget together
FittingSets ==
    {indexes \in SUBSET (1..Len(aArgs.selectedChunks)) :
        EstimateSum(indexes) <= aArgs.contextBudgetChars}

LargestFitting ==
    CHOOSE n \in 0..Len(aArgs.selectedChunks) :
       /\ \E indexes \in FittingSets : Cardinality(indexes) = n
       /\ \A indexes \in FittingSets : Cardinality(indexes) <= n

\* the number of candidates a loop that stops at the first misfit admits
LongestFittingPrefix ==
    CHOOSE n \in 0..Len(aArgs.selectedChunks) :
       /\ (1..n) \in FittingSets
       /\ n < Len(aArgs.selectedChunks) => (1..(n + 1)) \notin FittingSets

\* C15 as stated: the number of admitted chunks is the largest number of
\* candidates any subset fitting the budget can contain.
C15_AdmitsLargestFittingSubset ==
    aPc = "done" => Len(aResult.selected) = LargestFitting

\* C15, amended: the admitted candidates are a maximal fitting set (no
\* fitting set of candidates strictly contains them) with at least as many
\* members as the longest fitting prefix, and at most as many as the largest
\* fitting subset.
C15_AdmitsMaximalFittingSubset ==
    aPc = "done"
    => /\ AdmittedIndexes \in FittingSets
       /\ \A indexes \in FittingSets :
             AdmittedIndexes \subseteq indexes => indexes = AdmittedIndexes
       /\ Len(aResult.selected) >= LongestFittingPrefix
       /\ Len(aResult.selected) <= LargestFitting

\* one chunk was admitted where two later, smaller ones would have fitted
C15_Witness ==
    /\ aPc = "done"
    /\ Len(aResult.selected) = 1
    /\ LargestFitting = 2
    /\ AdmittedIndexes = {1}

\* C16: the contextText never has more characters than contextBudgetChars,
\* whatever the lengths of id, sourceName and text and the number of groups.
C16_ContextTextWithinBudget ==
    aPc = "done" => Len(aResult.contextText) <= aArgs.contextBudgetChars

(***************************************************************************)
(* Hybrid ranking: scripts/lib/rag-retrieval.mjs rankSlideFilesByHybrid    *)
(* and rankChunksHybrid, after the query embedding of generate-notes.mjs   *)
(* 1728-1743.  Weights are in hundredths, normalised scores in units of    *)
(* 1/NormScale, so a score is the code's score times 100 * NormScale.      *)
(***************************************************************************)
ChunkLexicalWeight == 40
ChunkSemanticWeight == 60
SlideLexicalWeight == 45
SlideSemanticWeight == 55
NormScale == 6

\* a text is the sequence of its words; String.prototype.includes(term)
includes(text, term) == \E i \in 1..Len(text) : text[i] = term

\* toTokens (rag-cache.mjs 143-154): the words of at least 3 characters
toTokens(value) == {value[i] : i \in {k \in 1..Len(value) : Len(value[k]) >= 3}}

\* the entries of synonymMap (159-178) for the words of the queries used
synonymMap(token) ==
    IF token = "hernia"
    THEN {"inguinal", "femoral", "umbilical", "incisional"}
    ELSE {}

buildTopicTerms(topic) ==
    toTokens(topic) \cup UNION {synonymMap(token) : token \in toTokens(topic)}

RECURSIVE lexicalScoreOver(_, _)
lexicalScoreOver(text, terms) ==
    IF terms = {} THEN 0
    ELSE LET term == CHOOSE t \in terms : TRUE
         IN  (IF includes(text, term)
              THEN (IF Len(term) >= 6 THEN 3 ELSE 1)
              ELSE 0)
             + lexicalScoreOver(text, terms \ {term})

lexicalScore(text, terms) == lexicalScoreOver(text, terms)

\* an embedding is a vector, kept as its dimension and its cosine with the
\* query vector (in halves); Undefined stands for a missing one
QueryWords == <<"gut", "hernia">>
QueryVector == [dim |-> 2, sim |-> 2]
Vectors == [dim : {2}, sim : {-1, 1}] \cup {[dim |-> 3, sim |-> 0]}
isArray(embedding) == embedding # Undefined

\* cosineSimilarity of the "ai" package: throws on vectors of different
\* lengths
cosineSimilarity(a, b) ==
    IF a.dim # b.dim THEN Threw("InvalidArgumentError") ELSE Returned(b.sim)

\* try { return cosineSimilarity(...) } catch { return 0 }
similarityOrZero(outcome) ==
    IF outcome.threw # "none" THEN 0 ELSE outcome.value

semanticRawOfStored(queryEmbedding, embedding) ==
    IF ~isArray(embedding) THEN 0 ELSE embedding.sim

\* lines 69-85 and 35-44
semanticRawOf(queryEmbedding, embedding) ==
    IF queryEmbedding = Undefined \/ ~isArray(embedding) THEN 0
    ELSE similarityOrZero(cosineSimilarity(queryEmbedding, embedding))

minOf(values) ==
    CHOOSE v \in {values[i] : i \in 1..Len(values)} :
       \A i \in 1..Len(values) : v <= values[i]
maxOf(values) ==
    CHOOSE v \in {values[i] : i \in 1..Len(values)} :
       \A i \in 1..Len(values) : v >= values[i]

normalizeIgnoringMin(values) ==
    IF values = <<>> THEN <<>>
    ELSE IF maxOf(values) <= 0
         THEN [i \in 1..Len(values) |-> 0]
         ELSE [i \in 1..Len(values) |->
                 (values[i] * NormScale) \div maxOf(values)]

\* normalizeMinMax (rag-cache.mjs 300-332) on finite numbers
normalizeMinMax(values) ==
    IF values = <<>> THEN <<>>
    ELSE IF minOf(values) = maxOf(values)
         THEN [i \in 1..Len(values) |-> 0]
         ELSE [i \in 1..Len(values) |->
                 ((values[i] - minOf(values)) * NormScale)
                    \div (maxOf(values) - minOf(values))]

\* the comparators of lines 98 and 57
compareChunks(a, b) ==
    IF b.score - a.score # 0 THEN b.score - a.score
    ELSE localeCompare(a.id, b.id)
compareSlideFiles(a, b) ==
    IF b.score - a.score # 0 THEN b.score - a.score
    ELSE localeCompare(a.fileName, b.fileName)

\* Array.prototype.sort, stable, with a comparator
RECURSIVE insertBy(_, _, _)
insertBy(compare(_, _), sorted, item) ==
    IF sorted = <<>> THEN <<item>>
    ELSE IF compare(Head(sorted), item) <= 0
         THEN <<Head(sorted)>> \o insertBy(compare, Tail(sorted), item)
         ELSE <<item>> \o sorted

RECURSIVE sortBy(_, _)
sortBy(compare(_, _), items) ==
    IF items = <<>> THEN <<>>
    ELSE insertBy(compare, sortBy(compare, SubSeq(items, 1, Len(items) - 1)),
                  items[Len(items)])

\* rankChunksHybrid (60-99)
rankChunksHybrid(args) ==
    LET terms == buildTopicTerms(args.query)
        chunks == args.chunks
        lexicalRaw ==
            [i \in 1..Len(chunks) |-> lexicalScore(chunks[i].text, terms)]
        semanticRaw ==
            [i \in 1..Len(chunks) |->
                semanticRawOf(args.queryEmbedding,
                              Lookup(args.embeddingById, chunks[i].id))]
        lexicalNorm == normalizeMinMax(lexicalRaw)
        semanticNorm == normalizeMinMax(semanticRaw)
    IN  sortBy(compareChunks,
               [i \in 1..Len(chunks) |->
                   [id |-> chunks[i].id,
                    text |-> chunks[i].text,
                    lexicalScore |-> lexicalRaw[i],
                    semanticScore |-> semanticRaw[i],
                    score |-> ChunkLexicalWeight * lexicalNorm[i]
                              + ChunkSemanticWeight * semanticNorm[i]]])

\* rankSlideFilesByHybrid (23-58)
rankSlideFilesByHybrid(args) ==
    LET terms == buildTopicTerms(args.topic)
        slideFiles == args.slideFiles
        lexicalRaw ==
            [i \in 1..Len(slideFiles) |->
                lexicalScore(<<slideFiles[i].fileName>>
                             \o slideFiles[i].summaryText, terms)]
        semanticRaw ==
            [i \in 1..Len(slideFiles) |->
                semanticRawOf(args.queryEmbedding,
                              slideFiles[i].summaryEmbedding)]
        lexicalNorm == normalizeMinMax(lexicalRaw)
        semanticNorm == normalizeMinMax(semanticRaw)
    IN  sortBy(compareSlideFiles,
               [i \in 1..Len(slideFiles) |->
                   [fileName |-> slideFiles[i].fileName,
                    summaryText |-> slideFiles[i].summaryText,
                    summaryEmbedding |-> slideFiles[i].summaryEmbedding,
                    lexicalScore |-> lexicalRaw[i],
                    semanticScore |-> semanticRaw[i],
                    score |-> SlideLexicalWeight * lexicalNorm[i]
                              + SlideSemanticWeight * semanticNorm[i]]])

\* the candidates of a call: up to MaxRanked chunks or slide files, in
\* ascending or descending order of their keys, each with a text and an
\* embedding that is missing, of another dimension than the query's, or
\* comparable with it
ChunkIdSeq == <<"felix-1", "felix-2", "felix-3", "felix-4">>
FileNameSeq == <<"a.pdf", "b.pdf", "c.pdf", "d.pdf">>
RankTexts == {<<"gut">>, <<"hernia", "repair">>}
StoredEmbeddings == Vectors \cup {Undefined}
KeyOrders(keys, len) ==
    {[i \in 1..len |-> keys[i]], [i \in 1..len |-> keys[len + 1 - i]]}

\* the call of generate-notes.mjs 1762-1767 and 1771-1776, before the query
\* is embedded
chunkRankCall(order, texts, embeddings) ==
    [fn |-> "rankChunksHybrid",
     query |-> QueryWords,
     chunks |-> [i \in 1..Len(order) |-> [id |-> order[i], text |-> texts[i]]],
     embeddingById |->
        [id \in {order[i] : i \in {j \in 1..Len(order) :
                                      embeddings[j] # Undefined}} |->
            embeddings[CHOOSE j \in 1..Len(order) : order[j] = id]],
     queryEmbedding |-> Undefined]

\* the call of generate-notes.mjs 1745-1749
slideRankCall(order, texts, embeddings) ==
    [fn |-> "rankSlideFilesByHybrid",
     topic |-> QueryWords,
     slideFiles |->
        [i \in 1..Len(order) |->
            [fileName |-> order[i], summaryText |-> texts[i],
             summaryEmbedding |-> embeddings[i]]],
     queryEmbedding |-> Undefined]

NoRanked == <<>>

InitRank ==
    /\ \E len \in 0..MaxRanked :
          \E texts \in [1..len -> RankTexts],
             embeddings \in [1..len -> StoredEmbeddings] :
             \/ \E order \in KeyOrders(ChunkIdSeq, len) :
                   rArgs = chunkRankCall(order, texts, embeddings)
             \/ \E order \in KeyOrders(FileNameSeq, len) :
                   rArgs = slideRankCall(order, texts, embeddings)
    /\ rResult = NoRanked
    /\ rEmbed = "pending"
    /\ rPc = "embed"

ParkRank ==
    /\ rArgs = [fn |-> "none"]
    /\ rResult = NoRanked
    /\ rEmbed = "pending"
    /\ rPc = "off"

\* generate-notes.mjs 1729-1743: the query is embedded; a failure is logged
\* and leaves queryEmbedding null
EmbedQuery ==
    /\ rPc = "embed"
    /\ \E outcome \in {"embedded", "failed"} :
          /\ rEmbed' = outcome
          /\ rArgs' = [rArgs EXCEPT !.queryEmbedding =
                          IF outcome = "embedded" THEN QueryVector
                          ELSE Undefined]
    /\ rPc' = "rank"
    /\ UNCHANGED <<rResult, notRank>>

\* generate-notes.mjs 1745-1777: the ranking calls
RankCall ==
    /\ rPc = "rank"
    /\ rResult' = IF rArgs.fn = "rankChunksHybrid"
                  THEN rankChunksHybrid(rArgs)
                  ELSE rankSlideFilesByHybrid(rArgs)
    /\ rPc' = "done"
    /\ UNCHANGED <<rArgs, rEmbed, notRank>>

NextRank == EmbedQuery \/ RankCall

\* the candidates of the ranking call, their keys, texts and embeddings
RankInput ==
    IF rArgs.fn = "rankChunksHybrid" THEN rArgs.chunks ELSE rArgs.slideFiles
RankKey(item) ==
    IF rArgs.fn = "rankChunksHybrid" THEN item.id ELSE item.fileName
RankText(item) ==
    IF rArgs.fn = "rankChunksHybrid" THEN item.text
    ELSE <<item.fileName>> \o item.summaryText
RankEmbedding(item) ==
    IF rArgs.fn = "rankChunksHybrid"
    THEN (IF item.id \in DOMAIN rArgs.embeddingById
          THEN rArgs.embeddingById[item.id] ELSE Undefined)
    ELSE item.summaryEmbedding
RankWeights ==
    IF rArgs.fn = "rankChunksHybrid"
    THEN [lexical |-> ChunkLexicalWeight, semantic |-> ChunkSemanticWeight]
    ELSE [lexical |-> SlideLexicalWeight, semantic |-> SlideSemanticWeight]

\* the raw scores the claim prescribes for a candidate
ExpectedLexical(item) ==
    lexicalScore(RankText(item), buildTopicTerms(QueryWords))
ExpectedSemantic(item) ==
    IF \/ rArgs.queryEmbedding = Undefined
       \/ RankEmbedding(item) = Undefined
       \/ RankEmbedding(item).dim # rArgs.queryEmbedding.dim
    THEN 0
    ELSE RankEmbedding(item).sim

\* min-max normalisation of one value among the candidates' values, in
\* units of 1/NormScale
MinMaxNormalized(value, values) ==
    LET lowest == CHOOSE v \in values : \A w \in values : v <= w
        highest == CHOOSE v \in values : \A w \in values : v >= w
    IN  IF lowest = highest THEN 0
        ELSE ((value - lowest) * NormScale) \div (highest - lowest)

ExpectedScore(item) ==
    LET input == RankInput
        lexicals == {ExpectedLexical(input[i]) : i \in 1..Len(input)}
        semantics == {ExpectedSemantic(input[i]) : i \in 1..Len(input)}
    IN  RankWeights.lexical * MinMaxNormalized(ExpectedLexical(item), lexicals)
        + RankWeights.semantic
          * MinMaxNormalized(ExpectedSemantic(item), semantics)

\* C17: the ranked list is a permutation of the candidates, each with
\* score = lexicalWeight x normalised lexical raw score + semanticWeight x
\* normalised semantic raw score, sorted by score descending and by
\* ascending id (file name) among equal scores; the semantic raw score is 0
\* when the query embedding or the candidate's embedding is missing or the
\* similarity cannot be computed, and the ranking still returns.
C17_HybridRanking ==
    rPc = "done"
    => LET input == RankInput
           ranked == rResult
       IN  /\ Len(ranked) = Len(input)
           /\ \A i \in 1..Len(input) :
                 \E j \in 1..Len(ranked) :
                    /\ RankKey(ranked[j]) = RankKey(input[i])
                    /\ RankText(ranked[j]) = RankText(input[i])
                    /\ ranked[j].lexicalScore = ExpectedLexical(input[i])
                    /\ ranked[j].semanticScore = ExpectedSemantic(input[i])
                    /\ ranked[j].score = ExpectedScore(input[i])
                    /\ \A other \in 1..Len(ranked) :
                          RankKey(ranked[other]) = RankKey(input[i])
                             => other = j
           /\ \A j \in 1..(Len(ranked) - 1) :
                 \/ ranked[j].score > ranked[j + 1].score
                 \/ /\ ranked[j].score = ranked[j + 1].score
                    /\ IdRank(RankKey(ranked[j]))
                          < IdRank(RankKey(ranked[j + 1]))

\* three candidates given in descending key order, ranked with a query
\* embedding: one has no embedding, one an embedding of another dimension,
\* one a negative similarity; the first two of the result tie on the score
C17_Witness ==
    /\ rPc = "done"
    /\ rEmbed = "embedded"
    /\ Len(RankInput) = 3
    /\ IdRank(RankKey(RankInput[1])) > IdRank(RankKey(RankInput[2]))
    /\ \E i \in 1..3 : RankEmbedding(RankInput[i]) = Undefined
    /\ \E i \in 1..3 :
          /\ RankEmbedding(RankInput[i]) # Undefined
          /\ RankEmbedding(RankInput[i]).dim # rArgs.queryEmbedding.dim
    /\ \E i \in 1..3 : ExpectedSemantic(RankInput[i]) < 0
    /\ rResult[1].score = rResult[2].score
    /\ rResult[2].score > rResult[3].score
    /\ rResult[3].score > 0

PoolIds == {ChunkIdSeq[i] : i \in 1..MaxPool}
Pools ==
    {pool \in UNION {[1..k -> [id : PoolIds, text : {"a"}]] : k \in 0..MaxPool} :
        \A i, j \in 1..Len(pool) : i # j => pool[i].id # pool[j].id}

\* what generateText can do: throw, resolve without output, or resolve with
\* ids, some of which may be repeated or not in the candidate list
OutputIds == PoolIds \cup {"ghost-1"}
ScoutOutcomes ==
    {Threw("Error"), Returned(Undefined)}
    \cup {Returned([selectedChunkIds |-> ids]) :
            ids \in UNION {[1..k -> OutputIds] : k \in 0..MaxOutput}}

\* result.output?.selectedChunkIds ?? []
outputIdsOf(output) ==
    IF output = Undefined THEN <<>> ELSE output.selectedChunkIds

idsOf(items) == [i \in 1..Len(items) |-> items[i].id]
inList(list, value) == \E i \in 1..Len(list) : list[i] = value

keepsIdAllowingRepeats(allowedIds, selectedChunkIds, id) == id \in allowedIds

\* line 1439
keepsId(allowedIds, selectedChunkIds, id) ==
    id \in allowedIds /\ ~inList(selectedChunkIds, id)

\* the loop of lines 1438-1445
RECURSIVE scoutLoop(_, _, _)
scoutLoop(ids, allowedIds, selectedChunkIds) ==
    IF ids = <<>> THEN selectedChunkIds
    ELSE LET next == IF keepsId(allowedIds, selectedChunkIds, Head(ids))
                     THEN Append(selectedChunkIds, Head(ids))
                     ELSE selectedChunkIds
         IN  IF Len(next) >= SCOUT_SELECTION_LIMIT THEN next
             ELSE scoutLoop(Tail(ids), allowedIds, next)

\* candidates.slice(0, Math.min(SCOUT_SELECTION_LIMIT, candidates.length))
topCandidates(candidates) ==
    slice(candidates, 0, Min2(SCOUT_SELECTION_LIMIT, Len(candidates)))

\* selectMergedChunkIdsWithScout (1402-1468); outcome is what the
\* generateText call of 1431-1436 does
selectMergedChunkIdsWithScout(candidates, outcome) ==
    IF Len(candidates) = 0
    THEN [selectedChunkIds |-> <<>>, rationale |-> "No candidates provided."]
    ELSE IF outcome.threw # "none"
         THEN [selectedChunkIds |-> idsOf(topCandidates(candidates)),
               rationale |-> "Fallback hybrid ranking."]
         ELSE [selectedChunkIds |->
                  scoutLoop(outputIdsOf(outcome.value),
                            {candidates[i].id : i \in 1..Len(candidates)},
                            <<>>),
               rationale |-> ""]

\* lines 1792-1801: the chunks of the selected ids, through selectedById
RECURSIVE chunksOfIds(_, _)
chunksOfIds(ids, candidates) ==
    IF ids = <<>> THEN <<>>
    ELSE (IF inList(idsOf(candidates), Head(ids))
          THEN <<candidates[CHOOSE i \in 1..Len(candidates) :
                               candidates[i].id = Head(ids)]>>
          ELSE <<>>)
         \o chunksOfIds(Tail(ids), candidates)

\* lines 1792-1810
collectSelectedChunks(selection, candidates) ==
    LET selectedChunks == chunksOfIds(selection.selectedChunkIds, candidates)
    IN  IF Len(selectedChunks) = 0 THEN topCandidates(candidates)
        ELSE selectedChunks

NoSelection == [selectedChunkIds |-> <<>>, rationale |-> ""]

InitScout ==
    /\ scCandidates \in Pools
    /\ scOutcome = Returned(Undefined)
    /\ scSelection = NoSelection
    /\ scSelected = <<>>
    /\ scPc = "scout"

ParkScout ==
    /\ scCandidates = <<>>
    /\ scOutcome = Returned(Undefined)
    /\ scSelection = NoSelection
    /\ scSelected = <<>>
    /\ scPc = "off"

\* line 1785: the call of selectMergedChunkIdsWithScout
ScoutCall ==
    /\ scPc = "scout"
    /\ \E outcome \in ScoutOutcomes :
          /\ scOutcome' = outcome
          /\ scSelection' = selectMergedChunkIdsWithScout(scCandidates, outcome)
    /\ scPc' = "collect"
    /\ UNCHANGED <<scCandidates, scSelected, notScout>>

\* lines 1792-1810: what is handed to assembleSectionContext
CollectSelected ==
    /\ scPc = "collect"
    /\ scSelected' = collectSelectedChunks(scSelection, scCandidates)
    /\ scPc' = "done"
    /\ UNCHANGED <<scCandidates, scOutcome, scSelection, notScout>>

NextScout == ScoutCall \/ CollectSelected

\* the ids of the reranker's output that name a candidate
UsableIds ==
    IF scOutcome.threw # "none" THEN {}
    ELSE {id \in {outputIdsOf(scOutcome.value)[i] :
                     i \in 1..Len(outputIdsOf(scOutcome.value))} :
             inList(idsOf(scCandidates), id)}

C19_FallbackWitness ==
    /\ scPc = "done"
    /\ scOutcome.threw # "none"
    /\ Len(scCandidates) > SCOUT_SELECTION_LIMIT
    /\ Len(scSelected) = SCOUT_SELECTION_LIMIT

(***************************************************************************)
(* Reading manifest.json: scripts/lib/rag-cache.mjs readJsonIfExists       *)
(* (20-35) and readManifest (82-103).  A file's text is a sequence of      *)
(* tokens: "{", one token per top-level field, "}"; or the one token null. *)
(***************************************************************************)
ManifestFields ==
    <<"manifestVersion", "updatedAt", "chunkingVersion", "embeddingModel",
      "sources">>

\* the values a stored manifest holds, all different from the defaults
StoredValue(field) ==
    CASE field = "manifestVersion" -> "v0"
      [] field = "updatedAt" -> 1
      [] field = "chunkingVersion" -> CHUNKING_VERSION
      [] field = "embeddingModel" -> DEFAULT_EMBEDDING_MODEL
      [] OTHER -> LegacyManifest.sources

\* JSON.stringify of a manifest that holds the fields `present`
RECURSIVE fieldTokens(_, _)
fieldTokens(fields, present) ==
    IF fields = <<>> THEN <<>>
    ELSE (IF Head(fields) \in present
          THEN <<[t |-> "field", name |-> Head(fields),
                  value |-> StoredValue(Head(fields))]>>
          ELSE <<>>)
         \o fieldTokens(Tail(fields), present)

manifestText(present) ==
    <<[t |-> "{"]>> \o fieldTokens(ManifestFields, present) \o <<[t |-> "}"]>>

\* what readFile finds at manifestPath
NoEntry == [kind |-> "ENOENT", raw |-> <<>>]
Directory == [kind |-> "EISDIR", raw |-> <<>>]
NoPermission == [kind |-> "EACCES", raw |-> <<>>]
FileWith(raw) == [kind |-> "file", raw |-> raw]

\* JSON.parse accepts the text: one complete object, or null
isJson(raw) ==
    \/ Len(raw) = 1 /\ raw[1].t = "null"
    \/ /\ Len(raw) >= 2
       /\ raw[1].t = "{"
       /\ raw[Len(raw)].t = "}"
       /\ \A i \in 2..(Len(raw) - 1) : raw[i].t = "field"

\* JSON.parse of an accepted text; null is NoManifest
parseJson(raw) ==
    IF raw[1].t = "null" THEN NoManifest
    ELSE [name \in {raw[i].name : i \in 2..(Len(raw) - 1)} |->
             raw[CHOOSE i \in 2..(Len(raw) - 1) : raw[i].name = name].value]

\* lines 25-31: the errors for which the fallback is returned
catchesError(kind) == kind \in {"ENOENT", "EISDIR"}

\* readJsonIfExists(manifestPath, null)
readJsonOrNull(entry) ==
    IF entry.kind # "file"
    THEN (IF catchesError(entry.kind) THEN Returned(NoManifest)
          ELSE Threw(entry.kind))
    ELSE IF isJson(entry.raw) THEN Returned(parseJson(entry.raw))
    ELSE IF catchesError("SyntaxError") THEN Returned(NoManifest)
    ELSE Threw("SyntaxError")

\* readManifest(manifestPath) on what is at the path
readManifestAt(entry) ==
    LET json == readJsonOrNull(entry)
    IN  IF json.threw # "none" THEN json
        ELSE Returned(readManifest(json.value))

NoResult == Returned(<<>>)

InitManifestRead ==
    /\ \/ pArgs \in {NoEntry, Directory, NoPermission,
                     FileWith(<<[t |-> "null"]>>)}
       \/ \E present \in SUBSET {ManifestFields[i] :
                                    i \in 1..Len(ManifestFields)} :
             \E cut \in 0..Len(manifestText(present)) :
                pArgs = FileWith(SubSeq(manifestText(present), 1, cut))
    /\ pResult = NoResult
    /\ pPc = "call"

ParkCall ==
    /\ pArgs = <<>>
    /\ pResult = NoResult
    /\ pPc = "off"

ReadManifestCall ==
    /\ pPc = "call"
    /\ pResult' = readManifestAt(pArgs)
    /\ pPc' = "done"
    /\ UNCHANGED <<pArgs, notCall>>

NextManifestRead == ReadManifestCall

\* C21: readManifest does not throw when the file is absent or its text is
\* not JSON; it then returns a manifest with chunkingVersion "unknown" and
\* no sources.  Of a manifest that parses, every missing top-level field has
\* its default and every present one its stored value.
C21_ReadManifestNeverThrows ==
    pPc = "done"
    => IF pArgs.kind = "ENOENT" \/ (pArgs.kind = "file" /\ ~isJson(pArgs.raw))
       THEN /\ pResult.threw = "none"
            /\ pResult.value.chunkingVersion = "unknown"
            /\ DOMAIN pResult.value.sources = {}
       ELSE (pArgs.kind = "file" /\ pArgs.raw[1].t = "{")
            => /\ pResult.threw = "none"
               /\ \A i \in 1..Len(ManifestFields) :
                     LET field == ManifestFields[i]
                         stored == \E k \in 1..Len(pArgs.raw) :
                                      /\ pArgs.raw[k].t = "field"
                                      /\ pArgs.raw[k].name = field
                     IN  IF stored
                         THEN pResult.value[field] = StoredValue(field)
                         ELSE pResult.value[field]
                                 = readManifest(NoManifest)[field]

(***************************************************************************)
(* Fingerprints on their own: a file is fingerprinted and its entry is     *)
(* stored; later the file, edited or not, is fingerprinted twice and the   *)
(* stored entry is compared with the new fingerprint (rag-cache.mjs        *)
(* fingerprintFile 66-80, isFingerprintMatch 113-123).                     *)
(***************************************************************************)
FingerprintPath == "a.pdf"

\* the file system holding the one file in the given state
oneFile(state) == [p \in {FingerprintPath} |-> state]

\* the stored entry: the manifest entry built from the first fingerprint, or
\* undefined when the manifest has no entry for the path
storedEntry(args) ==
    IF args.hasEntry
    THEN buildManifestEntry(FingerprintPath,
                            fingerprintFile(FingerprintPath,
                                            oneFile(args.before)),
                            DefaultOptions, "pdf", pdfDir(args.before.sha), 1)
    ELSE Undefined

\* the fingerprint handed to isFingerprintMatch, or null
newFingerprint(args) ==
    IF args.hasFingerprint
    THEN fingerprintFile(FingerprintPath, oneFile(args.after))
    ELSE Undefined

InitFingerprint ==
    /\ pArgs \in [before : FileStates, after : FileStates,
                  hasEntry : BOOLEAN, hasFingerprint : BOOLEAN]
    /\ pResult = NoResult
    /\ pPc = "call"

FingerprintCall ==
    /\ pPc = "call"
    /\ pResult' =
          Returned([entry |-> storedEntry(pArgs),
                    fingerprint |-> newFingerprint(pArgs),
                    match |-> isFingerprintMatch(storedEntry(pArgs),
                                                 newFingerprint(pArgs)),
                    again |-> isFingerprintMatch(
                                 newFingerprint(pArgs),
                                 fingerprintFile(FingerprintPath,
                                                 oneFile(pArgs.after)))])
    /\ pPc' = "done"
    /\ UNCHANGED <<pArgs, notCall>>

NextFingerprint == FingerprintCall

\* C22: isFingerprintMatch(entry, fingerprint) is true exactly when both are
\* present and size, modification time and content hash are equal; two
\* fingerprints of the same unmodified file match; an entry stored before the
\* content of the file was modified does not match the new fingerprint.
C22_MatchIffAllEqual ==
    pPc = "done"
    => LET r == pResult.value
       IN  /\ r.match
              <=> /\ pArgs.hasEntry
                  /\ pArgs.hasFingerprint
                  /\ r.entry.size = r.fingerprint.size
                  /\ r.entry.mtimeMs = r.fingerprint.mtimeMs
                  /\ r.entry.sha256 = r.fingerprint.sha256
           /\ pArgs.hasFingerprint => r.again
           /\ pArgs.before.sha # pArgs.after.sha => ~r.match

\* the content was modified, size and modification time are as before
C22_Witness ==
    /\ pPc = "done"
    /\ pArgs.hasEntry
    /\ pArgs.hasFingerprint
    /\ pArgs.before.sha # pArgs.after.sha
    /\ pArgs.before.mtimeMs = pArgs.after.mtimeMs
    /\ SizeOf(pArgs.before.sha) = SizeOf(pArgs.after.sha)
    /\ ~pResult.value.match
    /\ pResult.value.again

(***************************************************************************)
(* normalizeMinMax (rag-cache.mjs 300-332) on every kind of number.  The   *)
(* numbers are those of a floating-point format whose finite values are    *)
(* the integers of -MaxFinite..MaxFinite: a difference above MaxFinite     *)
(* overflows to Infinity, and Infinity / Infinity is NaN, as in IEEE 754   *)
(* doubles beyond Number.MAX_VALUE.  A quotient is kept as a fraction.     *)
(***************************************************************************)
MaxFinite == 3
MaxValues == 3

Finite(n) == [kind |-> "finite", n |-> n]
PositiveInfinity == [kind |-> "Infinity", n |-> 0]
NotANumber == [kind |-> "NaN", n |-> 0]
\* Number(value) of the values handed in: numbers, Infinity, and what
\* Number() turns into NaN
NumberValues ==
    {Finite(n) : n \in (0 - MaxFinite)..MaxFinite}
       \cup {PositiveInfinity, NotANumber}

isFinite(value) == value.kind = "finite"

\* lines 305-319: the least and the greatest finite value
finiteOf(values) == {values[i].n : i \in {k \in 1..Len(values) :
                                            isFinite(values[k])}}
leastOf(numbers) == CHOOSE n \in numbers : \A other \in numbers : n <= other
greatestOf(numbers) ==
    CHOOSE n \in numbers : \A other \in numbers : n >= other

\* a - b for a >= b in the format
minus(a, b) == IF a - b > MaxFinite THEN PositiveInfinity ELSE Finite(a - b)

\* a / b for finite a >= 0 or Infinity, and b > 0 or Infinity
Fraction(num, den) == [kind |-> "fraction", num |-> num, den |-> den]
dividedBy(a, b) ==
    IF ~isFinite(a) /\ ~isFinite(b) THEN NotANumber
    ELSE IF ~isFinite(b) THEN Fraction(0, 1)
    ELSE IF ~isFinite(a) THEN PositiveInfinity
    ELSE IF b.n = 0 THEN [kind |-> "division by zero", n |-> 0]
    ELSE Fraction(a.n, b.n)

normalizeMinMaxOf(values) ==
    IF Len(values) = 0 THEN <<>>
    ELSE IF finiteOf(values) = {}
            \/ leastOf(finiteOf(values)) = greatestOf(finiteOf(values))
    THEN [i \in 1..Len(values) |-> Fraction(0, 1)]
    ELSE LET min == leastOf(finiteOf(values))
             max == greatestOf(finiteOf(values))
         IN  [i \in 1..Len(values) |->
                IF ~isFinite(values[i]) THEN Fraction(0, 1)
                ELSE dividedBy(minus(values[i].n, min), minus(max, min))]

RECURSIVE ValueLists(_)
ValueLists(len) ==
    IF len = 0 THEN {<<>>}
    ELSE ValueLists(len - 1)
         \cup {Append(values, v) : values \in {l \in ValueLists(len - 1) :
                                                 Len(l) = len - 1},
                                   v \in NumberValues}

InitNormalize ==
    /\ pArgs \in ValueLists(MaxValues)
    /\ pResult = NoResult
    /\ pPc = "call"

NormalizeCall ==
    /\ pPc = "call"
    /\ pResult' = Returned(normalizeMinMaxOf(pArgs))
    /\ pPc' = "done"
    /\ UNCHANGED <<pArgs, notCall>>

NextNormalize == NormalizeCall

\* C23: normalizeMinMax returns a list as long as its input whose values are
\* all in [0,1]: [] for [], zeros when the finite inputs are all equal, and
\* otherwise (v - min)/(max - min) for each finite v, the minimum giving 0
\* and the maximum 1; no division is by zero.
C23_NormalizedIntoUnitInterval ==
    pPc = "done"
    => LET out == pResult.value
           finite == finiteOf(pArgs)
       IN  /\ Len(out) = Len(pArgs)
           /\ \A i \in 1..Len(out) :
                 /\ out[i].kind = "fraction"
                 /\ 0 <= out[i].num
                 /\ out[i].num <= out[i].den
                 /\ isFinite(pArgs[i]) /\ Cardinality(finite) > 1
                    => /\ out[i].num * (greatestOf(finite) - leastOf(finite))
                             = (pArgs[i].n - leastOf(finite)) * out[i].den
                       /\ pArgs[i].n = greatestOf(finite)
                          => out[i].num = out[i].den
                 /\ Cardinality(finite) <= 1 => out[i].num = 0

\* what does hold: no division is by zero, the length is kept, and when
\* max - min does not overflow every value is in [0,1]
C23_HoldsWithoutOverflow ==
    pPc = "done"
    => LET out == pResult.value
           finite == finiteOf(pArgs)
       IN  /\ Len(out) = Len(pArgs)
           /\ \A i \in 1..Len(out) :
                 /\ out[i].kind # "division by zero"
                 /\ (finite # {}
                     /\ greatestOf(finite) - leastOf(finite) <= MaxFinite)
                    => /\ out[i].kind = "fraction"
                       /\ 0 <= out[i].num
                       /\ out[i].num <= out[i].den

(***************************************************************************)
(* splitIntoSections (rag-cache.mjs 248-272) on documents made of whole    *)
(* lines.                                                                  *)
(***************************************************************************)
MaxLines == 3

ChapterOne == <<"C", "h", "a", "p", "t", "e", "r", SP, "1">>
\* the lines a document is made of
SectionLines ==
    {<<>>, <<SP>>, <<"a">>,
     <<HASH>>, <<HASH, SP>>, <<HASH, SP, "a">>, <<SP, HASH, SP, "a">>,
     <<HASH, "a">>,
     ChapterOne, ChapterOne \o <<":">>, ChapterOne \o <<SP, "a">>}

RECURSIVE LineLists(_)
LineLists(len) ==
    IF len = 0 THEN {<<>>}
    ELSE LineLists(len - 1)
         \cup {Append(lines, line) : lines \in {l \in LineLists(len - 1) :
                                                  Len(l) = len - 1},
                                     line \in SectionLines}

InitSections ==
    /\ \E lines \in LineLists(MaxLines) \ {<<>>} : pArgs = joinLines(lines)
    /\ pResult = NoResult
    /\ pPc = "call"

SectionsCall ==
    /\ pPc = "call"
    /\ pResult' = Returned(splitIntoSections(pArgs))
    /\ pPc' = "done"
    /\ UNCHANGED <<pArgs, notCall>>

NextSections == SectionsCall

\* the lines of all sections, in order
RECURSIVE linesOfSections(_)
linesOfSections(sections) ==
    IF sections = <<>> THEN <<>>
    ELSE splitLines(Head(sections)) \o linesOfSections(Tail(sections))

notBlank(line) == ~IsBlank(line)

\* a heading line as the statement describes it: an ATX heading of depth 1
\* to 6 (the hashes end the line or are followed by white space), or a line
\* beginning "Chapter N"; a line the regular expression of line 253 matches
\* is one of them
isHeadingLine(line) ==
    LET hashes == runLength(line, {HASH})
        afterWord == SubSeq(line, Len(ChapterWord) + 1, Len(line))
        spaces == runLength(afterWord, Whitespace)
    IN  \/ headingPattern(line)
        \/ /\ hashes >= 1
           /\ hashes <= 6
           /\ Len(line) = hashes
        \/ /\ Len(line) >= Len(ChapterWord)
           /\ \A i \in 1..Len(ChapterWord) : line[i] \in ChapterWord[i]
           /\ spaces >= 1
           /\ runLength(SubSeq(afterWord, spaces + 1, Len(afterWord)),
                        Digits) >= 1

\* the order of the lines is kept, and only blank lines are lost
keepsLines(text, sections) ==
    /\ SelectSeq(linesOfSections(sections), notBlank)
          = SelectSeq(splitLines(text), notBlank)
    /\ Len(linesOfSections(sections)) <= Len(splitLines(text))

\* C24: the sections returned by splitIntoSections are non-empty after
\* trimming; a heading line (ATX heading of depth 1 to 6, or a line
\* beginning "Chapter N") is in a section only as its first line; every
\* line outside a dropped blank section is in exactly one section, in the
\* original order.
C24_HeadingsOnlyFirst ==
    pPc = "done"
    => LET sections == pResult.value
       IN  /\ \A s \in 1..Len(sections) :
                 /\ Len(trim(sections[s])) > 0
                 /\ \A k \in 2..Len(splitLines(sections[s])) :
                       ~isHeadingLine(splitLines(sections[s])[k])
           /\ keepsLines(pArgs, sections)

\* what holds: the same with a heading line being one whose trimmed text
\* the regular expression matches, which is the test of line 256
C24_TrimmedHeadingsOnlyFirst ==
    pPc = "done"
    => LET sections == pResult.value
       IN  /\ \A s \in 1..Len(sections) :
                 /\ Len(trim(sections[s])) > 0
                 /\ \A k \in 2..Len(splitLines(sections[s])) :
                       ~headingPattern(trim(splitLines(sections[s])[k]))
           /\ keepsLines(pArgs, sections)

(***************************************************************************)
(* The per-page slide chunker: buildSlideChunksFromPages (part_003         *)
(* 514-541) on the pages extractPdfPagesWithOcr returns, whose text is     *)
(* trimmed and whose pageNumber is the position of the page (463, 501).    *)
(***************************************************************************)
MaxPages == 2
MaxPageLen == 6

\* trimmed page texts: the empty text of a page without text, and texts
\* that begin and end with a letter, with at most one run of spaces
PageTexts ==
    {text \in StringsUpTo({"a", SP}, MaxPageLen) :
        /\ trim(text) = text
        /\ \A x, y, z \in 1..Len(text) :
              x < y /\ y < z => ~(text[x] = SP /\ text[y] = "a" /\ text[z] = SP)}

pageOf(pageNumber, text) == [pageNumber |-> pageNumber, text |-> text]

\* lines 525-537: the windows of one page, from the window of index i
RECURSIVE slidePartLoop(_, _, _, _)
slidePartLoop(parts, i, page, args) ==
    IF i >= Len(parts) THEN <<>>
    ELSE LET part == parts[i + 1]
             partIndex == i + 1
         IN  (IF IsBlank(part) THEN <<>>
              ELSE <<[id |-> slideChunkId(args.fileName, page.pageNumber,
                                          partIndex),
                      sourceName |-> args.fileName,
                      sourcePath |-> args.sourcePath,
                      text |-> part]>>)
             \o slidePartLoop(parts, i + 1, page, args)

\* lines 517-538
RECURSIVE slidePageLoop(_, _)
slidePageLoop(pages, args) ==
    IF pages = <<>> THEN <<>>
    ELSE LET page == Head(pages)
         IN  (IF IsBlank(page.text) THEN <<>>
              ELSE slidePartLoop(splitLongSection(page.text, CHUNK_MAX_CHARS,
                                                  CHUNK_OVERLAP_CHARS),
                                 0, page, args))
             \o slidePageLoop(Tail(pages), args)

buildSlideChunksFromPages(args) == slidePageLoop(args.pages, args)

InitSlideChunks ==
    /\ \E count \in 1..MaxPages :
          \E texts \in [1..count -> PageTexts] :
             pArgs = [fileName |-> ShortFileName,
                      sourcePath |-> "/slides/" \o ShortFileName,
                      pages |-> [p \in 1..count |-> pageOf(p, texts[p])]]
    /\ pResult = NoResult
    /\ pPc = "call"

\* indexPdf's call (part_003 597-601)
SlideChunksCall ==
    /\ pPc = "call"
    /\ pResult' = Returned(buildSlideChunksFromPages(pArgs))
    /\ pPc' = "done"
    /\ UNCHANGED <<pArgs, notCall>>

NextSlideChunks == SlideChunksCall

\* the windows of a page
windowsOf(page) ==
    splitLongSection(page.text, CHUNK_MAX_CHARS, CHUNK_OVERLAP_CHARS)

\* C25: every chunk of the per-page slide chunker has the id
\* slide:{fileName}:p{pageNumber}:{partOrdinal} of the page and the window
\* its text is; the ordinal starts again at 1 on every page; blank pages and
\* blank windows give no chunk; the ids of a document are pairwise distinct.
C25_SlideIdsNamePageAndPart ==
    pPc = "done"
    => LET chunks == pResult.value
           pages == pArgs.pages
       IN  /\ \A c \in 1..Len(chunks) :
                 /\ ~IsBlank(chunks[c].text)
                 /\ \E p \in 1..Len(pages) :
                       \E i \in 1..Len(windowsOf(pages[p])) :
                          /\ chunks[c].id
                                = "slide:" \o pArgs.fileName \o ":p"
                                     \o ToString(pages[p].pageNumber) \o ":"
                                     \o ToString(i)
                          /\ chunks[c].text = windowsOf(pages[p])[i]
           /\ \A p \in 1..Len(pages) :
                 \A i \in 1..Len(windowsOf(pages[p])) :
                    ~IsBlank(windowsOf(pages[p])[i])
                    <=> \E c \in 1..Len(chunks) :
                           chunks[c].id
                              = "slide:" \o pArgs.fileName \o ":p"
                                   \o ToString(pages[p].pageNumber) \o ":"
                                   \o ToString(i)
           /\ \A p \in 1..Len(pages) :
                 ~IsBlank(pages[p].text)
                 => \E c \in 1..Len(chunks) :
                       chunks[c].id = "slide:" \o pArgs.fileName \o ":p"
                                         \o ToString(pages[p].pageNumber)
                                         \o ":1"
           /\ \A c, d \in 1..Len(chunks) :
                 c # d => chunks[c].id # chunks[d].id

\* two pages with text, the first with a blank window between two others
C25_Witness ==
    /\ pPc = "done"
    /\ Len(pArgs.pages) = 2
    /\ \E i \in 1..Len(windowsOf(pArgs.pages[1])) :
          IsBlank(windowsOf(pArgs.pages[1])[i])
    /\ \E c, d \in 1..Len(pResult.value) :
          /\ pResult.value[c].id = "slide:a.pdf:p1:3"
          /\ pResult.value[d].id = "slide:a.pdf:p2:1"

(***************************************************************************)
(* PDF page extraction with OCR fallback: shouldOcrPage (part_003 379-392) *)
(* and extractPdfPagesWithOcr (444-512).  The text mutool extracts from a  *)
(* page is kept as what the policy looks at: its length after trimming,    *)
(* the number of its white-space characters and of its letters a-z.        *)
(***************************************************************************)
MaxPdfPages == 3
OcrMinChars == 120
OcrMinAlphaPercent == 35

textOf(chars, blanks, letters) ==
    [chars |-> chars, blanks |-> blanks, letters |-> letters]
ImageOnlyText == textOf(0, 0, 0)
NormalText == textOf(200, 30, 160)
\* the page texts: no text, a short title, one character below and at the
\* length threshold, running text, a table of numbers, and a text whose
\* ratio of letters is exactly 0.35
MutoolTexts ==
    {ImageOnlyText, textOf(30, 5, 25), textOf(119, 19, 90),
     textOf(120, 20, 90), NormalText, textOf(200, 30, 50),
     textOf(120, 20, 35)}
OcrPolicies == {"smart", "always", "off"}

\* alphaCharRatio (368-377), as a fraction
alphaCharRatio(text) ==
    IF text.chars - text.blanks = 0 THEN [num |-> 0, den |-> 1]
    ELSE [num |-> text.letters, den |-> text.chars - text.blanks]

shouldOcrPageByLength(policy, text) ==
    IF policy = "off" THEN FALSE
    ELSE IF policy = "always" THEN TRUE
    ELSE text.chars < OcrMinChars

\* shouldOcrPage (379-392)
shouldOcrPage(policy, text) ==
    IF policy = "off" THEN FALSE
    ELSE IF policy = "always" THEN TRUE
    ELSE \/ text.chars < OcrMinChars
         \/ alphaCharRatio(text).num * 100
               < OcrMinAlphaPercent * alphaCharRatio(text).den

\* lines 467-507: the pages from the page of the given number on; the text
\* of a page is the extracted one or the one merged with the OCR output
RECURSIVE ocrPageLoop(_, _)
ocrPageLoop(pageNumber, args) ==
    IF pageNumber > Len(args.mutool) THEN <<>>
    ELSE LET mutoolText == args.mutool[pageNumber]
             ocrRuns == /\ shouldOcrPage(args.ocrPolicy, mutoolText)
                        /\ args.tesseractAvailable
             ocrApplied == ocrRuns /\ args.ocr[pageNumber] = "ok"
         IN  <<[pageNumber |-> pageNumber,
                text |-> IF ocrApplied THEN "merged" ELSE "mutool",
                mutoolChars |-> mutoolText.chars,
                ocrApplied |-> ocrApplied,
                warned |-> ocrRuns /\ ~ocrApplied]>>
             \o ocrPageLoop(pageNumber + 1, args)

extractPdfPagesWithOcr(args) ==
    IF args.mutoolWorks THEN Returned(ocrPageLoop(1, args))
    ELSE Threw("mutool")

InitOcr ==
    /\ \E count \in 1..MaxPdfPages :
          pArgs \in [ocrPolicy : OcrPolicies,
                     tesseractAvailable : BOOLEAN,
                     mutoolWorks : BOOLEAN,
                     mutool : [1..count -> MutoolTexts],
                     ocr : [1..count -> {"ok", "fails"}]]
    /\ pResult = NoResult
    /\ pPc = "call"

\* indexPdf's call (part_003 591-595)
OcrCall ==
    /\ pPc = "call"
    /\ pResult' = extractPdfPagesWithOcr(pArgs)
    /\ pPc' = "done"
    /\ UNCHANGED <<pArgs, notCall>>

NextOcr == OcrCall

\* C27: a page's ocrApplied is true exactly when the OCR policy flags the
\* page (never under "off", always under "always", under "smart" when the
\* trimmed text has fewer than 120 characters or a ratio of letters below
\* 0.35), the OCR tool is available and the OCR of the page succeeded; a
\* page whose OCR failed keeps its extracted text, and the document is
\* extracted all the same.
C27_OcrAppliedOnlyWhenFlagged ==
    (pPc = "done" /\ pArgs.mutoolWorks)
    => /\ pResult.threw = "none"
       /\ Len(pResult.value) = Len(pArgs.mutool)
       /\ \A n \in 1..Len(pResult.value) :
             LET page == pResult.value[n]
                 text == pArgs.mutool[n]
                 nonBlank == text.chars - text.blanks
                 flagged ==
                    \/ pArgs.ocrPolicy = "always"
                    \/ /\ pArgs.ocrPolicy = "smart"
                       /\ \/ text.chars < 120
                          \/ nonBlank = 0
                          \/ text.letters * 100 < 35 * nonBlank
             IN  /\ page.pageNumber = n
                 /\ page.ocrApplied
                    <=> (flagged /\ pArgs.tesseractAvailable
                         /\ pArgs.ocr[n] = "ok")
                 /\ ~page.ocrApplied => page.text = "mutool"

\* the PDF of three pages under "smart": running text, an image, running
\* text; only the second page has ocrApplied
C27_Witness ==
    /\ pPc = "done"
    /\ pArgs.ocrPolicy = "smart"
    /\ pArgs.tesseractAvailable
    /\ pArgs.mutool = <<NormalText, ImageOnlyText, NormalText>>
    /\ pArgs.ocr = <<"fails", "ok", "ok">>
    /\ pResult.threw = "none"
    /\ {n \in 1..3 : pResult.value[n].ocrApplied} = {2}

(***************************************************************************)
(* Specifications: one subsystem runs, the others are parked.              *)
(***************************************************************************)
InitSpecSplit ==
    InitSplit /\ ParkChunks /\ ParkWrite /\ ParkIndex /\ ParkMerge
    /\ ParkAssemble /\ ParkRank /\ ParkScout /\ ParkCall
SpecSplit == InitSpecSplit /\ [][NextSplit]_vars

InitSpecChunks ==
    InitChunks /\ ParkSplit /\ ParkWrite /\ ParkIndex /\ ParkMerge
    /\ ParkAssemble /\ ParkRank /\ ParkScout /\ ParkCall
SpecChunks == InitSpecChunks /\ [][NextChunks]_vars

InitSpecWrite ==
    InitWrite /\ ParkSplit /\ ParkChunks /\ ParkIndex /\ ParkMerge
    /\ ParkAssemble /\ ParkRank /\ ParkScout /\ ParkCall
SpecWrite == InitSpecWrite /\ [][NextWrite]_vars

InitSpecIndex ==
    InitIndex /\ ParkSplit /\ ParkChunks /\ ParkWrite /\ ParkMerge
    /\ ParkAssemble /\ ParkRank /\ ParkScout /\ ParkCall
SpecIndex == InitSpecIndex /\ [][NextIndex]_vars

InitSpecMerge ==
    InitMerge /\ ParkSplit /\ ParkChunks /\ ParkWrite /\ ParkIndex
    /\ ParkAssemble /\ ParkRank /\ ParkScout /\ ParkCall
SpecMerge == InitSpecMerge /\ [][NextMerge]_vars

InitSpecAssemble ==
    InitAssemble /\ ParkSplit /\ ParkChunks /\ ParkWrite /\ ParkIndex
    /\ ParkMerge /\ ParkRank /\ ParkScout /\ ParkCall
SpecAssemble == InitSpecAssemble /\ [][NextAssemble]_vars

InitSpecRank ==
    InitRank /\ ParkSplit /\ ParkChunks /\ ParkWrite /\ ParkIndex
    /\ ParkMerge /\ ParkAssemble /\ ParkScout /\ ParkCall
SpecRank == InitSpecRank /\ [][NextRank]_vars

InitSpecScout ==
    InitScout /\ ParkSplit /\ ParkChunks /\ ParkWrite /\ ParkIndex
    /\ ParkMerge /\ ParkAssemble /\ ParkRank /\ ParkCall
SpecScout == InitSpecScout /\ [][NextScout]_vars

InitSpecManifestRead ==
    InitManifestRead /\ ParkSplit /\ ParkChunks /\ ParkWrite /\ ParkIndex
    /\ ParkMerge /\ ParkAssemble /\ ParkRank /\ ParkScout
SpecManifestRead == InitSpecManifestRead /\ [][NextManifestRead]_vars

InitSpecFingerprint ==
    InitFingerprint /\ ParkSplit /\ ParkChunks /\ ParkWrite /\ ParkIndex
    /\ ParkMerge /\ ParkAssemble /\ ParkRank /\ ParkScout
SpecFingerprint == InitSpecFingerprint /\ [][NextFingerprint]_vars

InitSpecNormalize ==
    InitNormalize /\ ParkSplit /\ ParkChunks /\ ParkWrite /\ ParkIndex
    /\ ParkMerge /\ ParkAssemble /\ ParkRank /\ ParkScout
SpecNormalize == InitSpecNormalize /\ [][NextNormalize]_vars

InitSpecSections ==
    InitSections /\ ParkSplit /\ ParkChunks /\ ParkWrite /\ ParkIndex
    /\ ParkMerge /\ ParkAssemble /\ ParkRank /\ ParkScout
SpecSections == InitSpecSections /\ [][NextSections]_vars

InitSpecSlideChunks ==
    InitSlideChunks /\ ParkSplit /\ ParkChunks /\ ParkWrite /\ ParkIndex
    /\ ParkMerge /\ ParkAssemble /\ ParkRank /\ ParkScout
SpecSlideChunks == InitSpecSlideChunks /\ [][NextSlideChunks]_vars

InitSpecOcr ==
    InitOcr /\ ParkSplit /\ ParkChunks /\ ParkWrite /\ ParkIndex
    /\ ParkMerge /\ ParkAssemble /\ ParkRank /\ ParkScout
SpecOcr == InitSpecOcr /\ [][NextOcr]_vars

====
